---- MODULE Spec2Model ----
(***************************************************************************)
(* A model of the face-recognition pipeline: the identity database         *)
(* (database_manager.py), the detector with its staging folders, overlay   *)
(* cache and cleanup worker (face_detection.py), the recognizer            *)
(* (face_recognition.py), the configuration manager (config_manager.py)    *)
(* and the threads main() starts (main.py).                                *)
(*                                                                         *)
(* Representation.  Similarities, thresholds and confidences are integers  *)
(* in hundredths (0.40 is 40, similarity 1.0 is 100).  Embeddings are      *)
(* integer vectors of dimension 2 whose norm is an integer, so that the    *)
(* cosine similarity in hundredths is exact.  A dict is a sequence of      *)
(* records in insertion order (a python dict iterates in that order).      *)
(***************************************************************************)
EXTENDS Integers, Sequences, FiniteSets, TLC

VARIABLES
  \* DatabaseManager
  data,                    \* self.data, in the order of the JSON document
  lastFind,                \* history: the last find_similar_face call
  \* The two staging folders on disk
  save_dir,                \* the .jpg files of FaceDetector.save_folder
  unknown_dir,             \* the .jpg files of the unknown folder
  clock,                   \* creation time of the last file written
  \* Configuration-derived fields of the two stages
  justEvicted,             \* history: the folder an eviction run just ended on
  \* The configuration source and the ConfigManager the two stages share
  config_file,             \* config.yaml on disk: its document, or why none
  file_mtime,              \* os.path.getmtime(config.yaml)
  cm_config,               \* ConfigManager.config
  \* Configuration-derived fields of the two stages
  confidence_threshold,    \* FaceDetector.confidence_threshold
  max_images_per_folder,   \* FaceDetector.max_images_per_folder
  known_face_color,        \* FaceDetector.known_face_color
  similarity_threshold,    \* FaceRecognizer.similarity_threshold
  \* The config monitor thread of main()
  config_last_modified,    \* its nonlocal config_last_modified
  mon,                     \* where it stands, and its locals
  obs,                     \* history: what a stage thread last read
  \* The queues of FaceDetector
  recognition_results,     \* results, recognizer -> detection loop
  cleanup_queue,           \* cleanup requests, detection loop -> cleanup worker
  \* The overlay cache
  current_recognitions,    \* FaceDetector.current_recognitions, insertion order
  face_counter,            \* FaceDetector.face_counter
  now,                     \* time.time(), in seconds
  lastQuery,               \* history: the last get_recognition_for_area call
  \* The pipeline: the remaining fields of the two stages and the threads
  face_queue,              \* FaceDetector.face_queue, detection -> recognizer
  frame,                   \* parity of the frames read from the camera
  running,                 \* FaceDetector.running
  rec_running,             \* FaceRecognizer.running
  saved_faces,             \* FaceDetector.saved_faces (its keys)
  saved_unknown_faces,     \* FaceDetector.saved_unknown_faces (its keys)
  pc,                      \* where each thread stands
  rec_local,               \* recognition thread: face_id and files_to_delete
  cw_local,                \* cleanup worker: folder and files_to_delete
  main_local,              \* thread calling stop(): files_to_delete
  periodic_calls,          \* history: calls of periodic_cleanup so far
  consumed,                \* history: cleanup requests handled so far
  seen                     \* history: the last call of a function under study

dbVars == <<data, lastFind>>
fsVars == <<save_dir, unknown_dir, clock, justEvicted>>
srcVars == <<config_file, file_mtime>>
fieldVars == <<confidence_threshold, max_images_per_folder, known_face_color,
               similarity_threshold>>
monVars == <<config_last_modified, mon, obs>>
cfgVars == <<srcVars, cm_config, fieldVars, monVars>>
queueVars == <<recognition_results, cleanup_queue>>
cacheVars == <<current_recognitions, now, lastQuery>>
detVars == <<face_counter>>
pipeVars == <<face_queue, frame, running, rec_running, saved_faces, saved_unknown_faces,
              pc, rec_local, cw_local, main_local, periodic_calls, consumed>>
callVars == <<seen>>
vars == <<dbVars, fsVars, cfgVars, queueVars, cacheVars, detVars, pipeVars,
          callVars>>

(***************************************************************************)
(* Bounds of the model.                                                    *)
(***************************************************************************)
MaxRecords == 2
MaxCap == 2       \* max_images_per_folder ranges over 0..MaxCap
MaxWrites == 4    \* files written to the staging folders in one run
MaxTime == 4      \* the clock runs from 0 to MaxTime seconds
MaxFaces == 2     \* crops accepted (face ids handed out) in one run
MaxEdits == 2     \* times config.yaml is rewritten in one run
MaxCache == 2     \* results in the overlay cache of a single query

\* The None a lookup returns when nothing matched.
None == [none |-> TRUE]
Raises == [raises |-> TRUE]

(***************************************************************************)
(* database_manager.py                                                     *)
(***************************************************************************)
\* Query and stored descriptors.  Malformed stands for a record without a
\* usable "mean_embedding" field.
Embeddings == {<<3, 4>>, <<4, 3>>, <<-3, -4>>, <<4, -3>>, <<0, 0>>}
Malformed == <<>>
\* A stored descriptor of another length than the query descriptors.
WrongLength == <<5>>
Names == {"alice", "bob"}
Thresholds == {-50, 0, 40, 60, 100}

Dot(a, b) == a[1] * b[1] + a[2] * b[2]

\* np.linalg.norm on the vectors of Embeddings (all of an integer norm).
Norm(a) == CHOOSE n \in 0..(Dot(a, a)) : n * n = Dot(a, a)

\* cosine_similarity, in hundredths.
cosine_similarity(embedding1, embedding2) ==
  LET dot_product == Dot(embedding1, embedding2)
      norm1 == Norm(embedding1)
      norm2 == Norm(embedding2)
  IN  IF Len(embedding1) # Len(embedding2)
        THEN 0  \* np.dot raises, and the except clause returns 0
        ELSE IF norm1 = 0 \/ norm2 = 0
          THEN 0
          ELSE (dot_product * 100) \div (norm1 * norm2)

\* The loop of find_similar_face over self.data.items(), from record i on.
\* A record whose descriptor cannot be read raises.
RECURSIVE ScanRecords(_, _, _, _, _, _)
ScanRecords(recs, i, query_embedding, threshold, best_similarity, best_match) ==
  IF i > Len(recs)
    THEN best_match
    ELSE IF recs[i].mean_embedding = Malformed
      THEN Raises
      ELSE LET similarity == cosine_similarity(query_embedding,
                                               recs[i].mean_embedding)
           IN  IF similarity > best_similarity
                 THEN ScanRecords(recs, i + 1, query_embedding, threshold,
                        similarity,
                        IF similarity >= threshold
                          THEN [person_name |-> recs[i].person_name,
                                similarity |-> similarity]
                          ELSE best_match)
                 ELSE ScanRecords(recs, i + 1, query_embedding, threshold,
                        best_similarity, best_match)

\* A lookup that accepts the best record whatever the threshold.
FindIgnoringThreshold(store, query_embedding, threshold) ==
  IF store = <<>>
    THEN None
    ELSE LET found == ScanRecords(store, 1, query_embedding, -100, 0, None)
         IN  IF found = Raises THEN None ELSE found

\* find_similar_face: the except clause returns None whatever was found
\* before the exception.
find_similar_face(store, query_embedding, threshold) ==
  IF store = <<>>
    THEN None
    ELSE LET found == ScanRecords(store, 1, query_embedding, threshold, 0, None)
         IN  IF found = Raises THEN None ELSE found

\* The stores load_database can produce: records with distinct names (the
\* keys of a JSON object), in any order.
Records ==
  [person_name : Names,
   mean_embedding : Embeddings \cup {Malformed, WrongLength}]
Stores ==
  {s \in UNION {[1..n -> Records] : n \in 0..MaxRecords} :
     \A i, j \in 1..Len(s) : i # j => s[i].person_name # s[j].person_name}

(***************************************************************************)
(* The staging folders and their eviction (face_detection.py,              *)
(* face_recognition.py).  A file is a record of the face it was written    *)
(* for, its kind and its creation time; creation times of one run are      *)
(* distinct (clock), so sorting by creation time is deterministic.         *)
(***************************************************************************)
RecognizerKeep == 10

Max(S) == CHOOSE x \in S : \A y \in S : y <= x
Min(S) == CHOOSE x \in S : \A y \in S : x <= y

\* files_with_time.sort(key=lambda x: x[2]): oldest first.
\* Creation times are distinct, so the file at place i is the one with i - 1
\* older files.
SortByCtime(files) ==
  [i \in 1..Cardinality(files) |->
     CHOOSE f \in files :
       Cardinality({g \in files : g.ctime < f.ctime}) = i - 1]

\* The python slice lst[:-keep]; -0 is 0, so lst[:-0] is lst[:0], empty.
SliceAllButLast(lst, keep) ==
  IF keep = 0
    THEN <<>>
    ELSE SubSeq(lst, 1, Len(lst) - keep)

Range(seq) == {seq[i] : i \in 1..Len(seq)}

\* What one run of cleanup_oldest_files removes from a listing.
cleanup_oldest_files(listing, cap) ==
  IF Cardinality(listing) <= cap
    THEN {}
    ELSE Range(SliceAllButLast(SortByCtime(listing), cap))

\* What one run of cleanup_old_files_in_folder removes from a listing.
cleanup_old_files_in_folder(listing, cap) ==
  LET files_with_time == SortByCtime(listing)
  IN  IF Len(files_with_time) > cap
        THEN Range(SliceAllButLast(files_with_time, cap))
        ELSE {}

\* What one run of FaceRecognizer.cleanup_unknown_folder removes.
cleanup_unknown_folder(listing) ==
  IF Cardinality(listing) <= RecognizerKeep
    THEN {}
    ELSE Range(SubSeq(SortByCtime(listing), 1,
                      Cardinality(listing) - RecognizerKeep))

File(face_id, kind, ctime) == [face_id |-> face_id, kind |-> kind, ctime |-> ctime]

\* An id that repeats the last one.
SameFaceId(counter) == counter

\* self.face_counter += 1; the id is made of the counter.
NextFaceId(counter) == counter + 1

\* A save_face that writes nothing.
SaveNothing(face_id, at) == {}

\* What save_face writes for the crop it numbers face_id, after `at`: the
\* original crop, then the resized one.
save_face(face_id, at) ==
  {File(face_id, "orig", at + 1), File(face_id, "resized", at + 2)}

\* The unknown folder outlives a run: it is empty on a first run and holds
\* what the last run left otherwise, at most RecognizerKeep older files.
LeftFromLastRun == {File(0, "old", i - RecognizerKeep) : i \in 1..RecognizerKeep}

(***************************************************************************)
(* The overlay cache (face_detection.py).  current_recognitions is a dict  *)
(* keyed by face_id: a sequence of results in insertion order.  An overlap *)
(* ratio is a pair <<numerator, denominator>> with denominator > 0.        *)
(***************************************************************************)
RecognitionTTL == 3

BBoxes == {<<0, 0, 10, 10>>, <<0, 0, 10, 8>>, <<20, 20, 30, 30>>}

\* An overlap computed without the test for an empty intersection.
OverlapUnguarded(bbox1, bbox2) ==
  LET intersection ==
        (Min({bbox1[3], bbox2[3]}) - Max({bbox1[1], bbox2[1]}))
          * (Min({bbox1[4], bbox2[4]}) - Max({bbox1[2], bbox2[2]}))
      union == (bbox1[3] - bbox1[1]) * (bbox1[4] - bbox1[2])
                 + (bbox2[3] - bbox2[1]) * (bbox2[4] - bbox2[2]) - intersection
  IN  IF union > 0 THEN <<intersection, union>> ELSE <<0, 1>>

\* calculate_bbox_overlap: intersection over union.
calculate_bbox_overlap(bbox1, bbox2) ==
  LET x1_int == Max({bbox1[1], bbox2[1]})
      y1_int == Max({bbox1[2], bbox2[2]})
      x2_int == Min({bbox1[3], bbox2[3]})
      y2_int == Min({bbox1[4], bbox2[4]})
      intersection == (x2_int - x1_int) * (y2_int - y1_int)
      area1 == (bbox1[3] - bbox1[1]) * (bbox1[4] - bbox1[2])
      area2 == (bbox2[3] - bbox2[1]) * (bbox2[4] - bbox2[2])
      union == area1 + area2 - intersection
  IN  IF x2_int <= x1_int \/ y2_int <= y1_int
        THEN <<0, 1>>
        ELSE IF union > 0 THEN <<intersection, union>> ELSE <<0, 1>>

\* a > b for two overlap ratios.
RatioGreater(a, b) == a[1] * b[2] > b[1] * a[2]

\* overlap > 0.3
AboveOverlapGate(a) == 10 * a[1] > 3 * a[2]

NoEntry == [none |-> TRUE]

\* The loop of get_recognition_for_area over current_recognitions.items().
RECURSIVE ScanCache(_, _, _, _, _)
ScanCache(cache, i, bbox, best_overlap, best_match) ==
  IF i > Len(cache)
    THEN best_match
    ELSE LET overlap == calculate_bbox_overlap(bbox, cache[i].bbox)
         IN  IF RatioGreater(overlap, best_overlap) /\ AboveOverlapGate(overlap)
               THEN ScanCache(cache, i + 1, bbox, overlap, cache[i])
               ELSE ScanCache(cache, i + 1, bbox, best_overlap, best_match)

\* A scan that stops at the first cached result above the gate.
FirstAboveGate(cache, bbox) ==
  IF \E i \in 1..Len(cache) :
       AboveOverlapGate(calculate_bbox_overlap(bbox, cache[i].bbox))
    THEN cache[CHOOSE i \in 1..Len(cache) :
                 /\ AboveOverlapGate(calculate_bbox_overlap(bbox, cache[i].bbox))
                 /\ \A j \in 1..(i - 1) :
                      ~AboveOverlapGate(calculate_bbox_overlap(bbox, cache[j].bbox))]
    ELSE NoEntry

\* get_recognition_for_area: the cached result it reads the label and the
\* confidence from, or NoEntry for (None, None).
get_recognition_for_area(cache, bbox) == ScanCache(cache, 1, bbox, <<0, 1>>, NoEntry)

\* self.current_recognitions[face_id] = {...}: a known key keeps its place.
StoreResult(cache, result) ==
  IF \E i \in 1..Len(cache) : cache[i].face_id = result.face_id
    THEN [i \in 1..Len(cache) |->
            IF cache[i].face_id = result.face_id THEN result ELSE cache[i]]
    ELSE Append(cache, result)

\* The dict comprehension that keeps the results younger than 3 seconds.
IsFresh(entry, current_time) == current_time - entry.timestamp < RecognitionTTL
PurgeOld(cache, current_time) ==
  SelectSeq(cache, LAMBDA entry : IsFresh(entry, current_time))

\* update_recognition_results: every queued result is stored, a cleanup
\* request is queued for it, and the cache is purged.  Yields the cache and
\* the cleanup queue it leaves.
RECURSIVE update_recognition_results(_, _, _, _)
update_recognition_results(results, cache, requests, current_time) ==
  IF results = <<>>
    THEN [cache |-> cache, requests |-> requests]
    ELSE LET result == Head(results)
         IN  update_recognition_results(
               Tail(results),
               PurgeOld(StoreResult(cache, result), current_time),
               Append(requests, [face_id |-> result.face_id,
                                 person_name |-> result.person_name]),
               current_time)

(***************************************************************************)
(* config_manager.py.  A YAML value is a tagged node: a mapping, a number, *)
(* a list or null.  A key path 'a.b' is the sequence <<"a", "b">>.         *)
(***************************************************************************)
MapNode(items) == [kind |-> "map", items |-> items]
NumNode(n) == [kind |-> "num", num |-> n]
ListNode(elems) == [kind |-> "list", elems |-> elems]
NullNode == [kind |-> "null"]
StrNode(s) == [kind |-> "str", str |-> s]

\* value[key] for a key that is a string: a mapping answers with the value
\* or a KeyError; a list, a string, a number and None raise a TypeError.
Subscript(value, key) ==
  IF value.kind = "map"
    THEN IF key \in DOMAIN value.items
           THEN [ok |-> value.items[key]]
           ELSE [error |-> "KeyError"]
    ELSE [error |-> "TypeError"]

\* except (KeyError, TypeError)
OnlyKeyError == {"KeyError"}
Caught == {"KeyError", "TypeError"}

\* ConfigManager.get: value = value[key] along the path; a caught error
\* yields the default, any other leaves get.
RECURSIVE get(_, _, _)
get(value, keys, default) ==
  IF keys = <<>>
    THEN value
    ELSE LET step == Subscript(value, Head(keys))
         IN  IF "error" \in DOMAIN step
               THEN IF step.error \in Caught THEN default ELSE Raises
               ELSE get(step.ok, Tail(keys), default)

\* The python value a field is set to from a number node.
NumberOf(node) == node.num

\* tuple(value) raises TypeError on a number or on None.
TupleRaises(node) == node.kind \in {"num", "null"}
TupleOf(node) == node.elems

\* A document with the four keys the model follows.
Document(conf, cap, sim, color) ==
  MapNode([k \in {"face_detection", "face_recognition", "colors"} |->
    CASE k = "face_detection" ->
           MapNode([j \in {"confidence_threshold", "max_images_per_folder"} |->
             IF j = "confidence_threshold" THEN NumNode(conf) ELSE NumNode(cap)])
      [] k = "face_recognition" ->
           MapNode([j \in {"similarity_threshold"} |-> NumNode(sim)])
      [] k = "colors" ->
           MapNode([j \in {"known_face_box"} |-> color])])

\* The values a stage reads from a loaded document, with the defaults of
\* FaceDetector.reload_config and FaceRecognizer.reload_config.
ConfidenceIn(doc) ==
  NumberOf(get(doc, <<"face_detection", "confidence_threshold">>, NumNode(60)))
MaxImagesIn(doc) ==
  NumberOf(get(doc, <<"face_detection", "max_images_per_folder">>, NumNode(10)))
ColorNodeIn(doc) ==
  get(doc, <<"colors", "known_face_box">>, ListNode(<<0, 255, 0>>))
SimilarityIn(doc) ==
  NumberOf(get(doc, <<"face_recognition", "similarity_threshold">>, NumNode(40)))

DocA == Document(60, 1, 40, ListNode(<<0, 255, 0>>))
DocB == Document(70, 2, 60, ListNode(<<255, 0, 0>>))
DocBadColor == Document(80, 0, 50, NumNode(5))   \* known_face_box: 5
DocEmpty == NullNode                             \* an empty YAML document

Documents == {DocA, DocB, DocBadColor, DocEmpty}

\* config.yaml: a document that parses, a file that does not, or no file.
OnDisk(doc) == [state |-> "ok", doc |-> doc]
FileStates == {OnDisk(doc) : doc \in Documents}
                \cup {[state |-> "corrupt"], [state |-> "missing"]}

\* ConfigManager.load_config raises on a missing or unparsable file.
LoadRaises(file) == file.state # "ok"

\* The fields of the two stages when both were set from one document.
StageFields(doc) ==
  [confidence_threshold |-> ConfidenceIn(doc),
   max_images_per_folder |-> MaxImagesIn(doc),
   known_face_color |-> TupleOf(ColorNodeIn(doc)),
   similarity_threshold |-> SimilarityIn(doc)]

CurrentFields ==
  [confidence_threshold |-> confidence_threshold,
   max_images_per_folder |-> max_images_per_folder,
   known_face_color |-> known_face_color,
   similarity_threshold |-> similarity_threshold]

(***************************************************************************)
(* The gates of the detection loop (face_detection.py): a detected region  *)
(* is a box <<x1, y1, x2, y2>> with a confidence in hundredths, on a frame *)
(* of shape <<height, width>>.                                             *)
(***************************************************************************)
MinCropSide == 100

\* int(x * 0.5): truncation towards zero.
HalfOf(x) == IF x >= 0 THEN x \div 2 ELSE -((-x) \div 2)

\* The length of the numpy slice [start:stop] of an axis of dim elements: a
\* negative index counts from the end, and both ends are clipped.
SliceLen(start, stop, dim) ==
  LET lo == IF start < 0 THEN Max({0, start + dim}) ELSE Min({start, dim})
      hi == IF stop < 0 THEN Max({0, stop + dim}) ELSE Min({stop, dim})
  IN  Max({0, hi - lo})

\* frame[y1_padded:y2_padded, x1_padded:x2_padded].shape
PaddedCropShape(box, shape) ==
  LET face_width == box[3] - box[1]
      face_height == box[4] - box[2]
      padding_x == HalfOf(face_width)
      padding_y == HalfOf(face_height)
      x1_padded == Max({0, box[1] - padding_x})
      y1_padded == Max({0, box[2] - padding_y})
      x2_padded == Min({shape[2], box[3] + padding_x})
      y2_padded == Min({shape[1], box[4] + padding_y})
  IN  <<SliceLen(y1_padded, y2_padded, shape[1]),
        SliceLen(x1_padded, x2_padded, shape[2])>>

\* A size gate that lets a side of exactly 100 through.
LargeEnoughOrEqual(crop_shape) ==
  crop_shape[1] >= MinCropSide /\ crop_shape[2] >= MinCropSide

\* face_img.size > 0 and face_img.shape[0] > 100 and face_img.shape[1] > 100
LargeEnough(crop_shape) ==
  /\ crop_shape[1] * crop_shape[2] > 0
  /\ crop_shape[1] > MinCropSide
  /\ crop_shape[2] > MinCropSide

\* if conf > self.confidence_threshold
ConfidentEnough(conf, threshold) == conf > threshold

\* The frames and the regions the detector collaborator hands over: boxes
\* clipped to the frame, corners in order.
FrameShape == <<480, 640>>
Columns == {0, 67, 68, 200, 250, 251, 573, 640}
Rows == {0, 67, 68, 200, 250, 251, 413, 480}
Regions ==
  {box \in Columns \X Rows \X Columns \X Rows :
     box[1] <= box[3] /\ box[2] <= box[4]}
Confidences == {59, 60, 61}

(***************************************************************************)
(* load_database (database_manager.py).  The database file is missing,     *)
(* cannot be read, cannot be parsed, or holds a JSON object.               *)
(***************************************************************************)
DatabaseFiles ==
  {[state |-> "missing"], [state |-> "unreadable"], [state |-> "unparsable"]}
    \cup {[state |-> "json", value |-> store] : store \in Stores}

\* load_database: what self.data is afterwards.  open and json.load raise
\* on a file that cannot be read or parsed, and the except clause leaves {}.
load_database(file) ==
  IF file.state = "json" THEN file.value ELSE <<>>

(***************************************************************************)
(* The state after construction, by component.                             *)
(***************************************************************************)
NoFind == [called |-> FALSE]

InitDatabase == data \in Stores /\ lastFind = NoFind

InitStaging ==
  /\ save_dir = {}
  /\ unknown_dir = {}
  /\ clock = 0
  /\ justEvicted = "none"

\* main() up to the start of the threads: ConfigManager("config.yaml") has
\* loaded doc, and both stages have read their fields from it.
InitConfig(doc) ==
  /\ config_file = OnDisk(doc)
  /\ file_mtime = 0
  /\ cm_config = doc
  /\ confidence_threshold = ConfidenceIn(doc)
  /\ max_images_per_folder = MaxImagesIn(doc)
  /\ known_face_color = TupleOf(ColorNodeIn(doc))
  /\ similarity_threshold = SimilarityIn(doc)
  /\ config_last_modified = 0
  /\ mon = [pc |-> "poll"]
  /\ obs = [read |-> FALSE]

InitQueues == recognition_results = <<>> /\ cleanup_queue = <<>>

InitCache ==
  /\ current_recognitions = <<>>
  /\ face_counter = 0
  /\ now = 0
  /\ lastQuery = [asked |-> FALSE]

\* main() has built both stages and created, not yet run, the two threads.
InitThreads ==
  /\ seen = [op |-> "none"]
  /\ face_queue = <<>>
  /\ frame = 0
  /\ running = FALSE
  /\ rec_running = FALSE
  /\ saved_faces = {}
  /\ saved_unknown_faces = {}
  /\ pc = [det |-> "start", rec |-> "start", cw |-> "idle", main |-> "wait"]
  /\ rec_local = [face_id |-> 0, files |-> {}]
  /\ cw_local = [folder |-> "known", files |-> {}]
  /\ main_local = {}
  /\ periodic_calls = 0
  /\ consumed = {}

(***************************************************************************)
(* find_similar_face called on every store.                                *)
(***************************************************************************)
\* One call of find_similar_face on the loaded store.
FindSimilarFace ==
  \E q \in Embeddings, t \in Thresholds :
    /\ lastFind' = [called |-> TRUE, query |-> q, threshold |-> t,
                    result |-> find_similar_face(data, q, t)]
    /\ UNCHANGED <<callVars, data, fsVars, cfgVars, queueVars, cacheVars, detVars, pipeVars>>

InitDB ==
  InitDatabase /\ InitStaging /\ InitConfig(DocA) /\ InitQueues /\ InitCache
  /\ InitThreads
NextDB == FindSimilarFace
SpecDB == InitDB /\ [][NextDB]_vars

(***************************************************************************)
(* Claims about find_similar_face.                                         *)
(***************************************************************************)
WellFormed(store) == \A i \in 1..Len(store) : store[i].mean_embedding # Malformed

Similarities(store, q) ==
  {cosine_similarity(q, store[i].mean_embedding) : i \in 1..Len(store)}

\* C2: find_similar_face returns none exactly when no record has a
\* similarity >= threshold, and otherwise a record of the maximum similarity
\* over all records, for every threshold (zero and negative included).
C2_FindReturnsGlobalMax ==
  (lastFind.called /\ WellFormed(data)) =>
    LET sims == Similarities(data, lastFind.query)
    IN  IF \A s \in sims : s < lastFind.threshold
          THEN lastFind.result = None
          ELSE /\ lastFind.result # None
               /\ \A s \in sims : s <= lastFind.result.similarity
               /\ lastFind.result.similarity \in sims
(***************************************************************************)
(* Eviction runs taken one at a time, with no write in between.            *)
(***************************************************************************)
\* A crop is written to a staging folder.
WriteCrop ==
  /\ clock < MaxWrites
  /\ clock' = clock + 1
  /\ \/ /\ save_dir' = save_dir \cup {File(clock + 1, "orig", clock + 1)}
        /\ UNCHANGED unknown_dir
     \/ /\ unknown_dir' = unknown_dir \cup {File(clock + 1, "unknown", clock + 1)}
        /\ UNCHANGED save_dir
  /\ justEvicted' = "none"
  /\ UNCHANGED <<callVars, dbVars, cfgVars, queueVars, cacheVars, detVars,
                 pipeVars>>

\* cleanup_oldest_files(self.save_folder, "known"), start to end.
EvictKnown ==
  /\ save_dir' = save_dir \ cleanup_oldest_files(save_dir, max_images_per_folder)
  /\ justEvicted' = "known"
  /\ UNCHANGED <<callVars, dbVars, unknown_dir, clock, cfgVars, queueVars, cacheVars, detVars,
                 pipeVars>>

\* cleanup_oldest_files(self.unknown_folder, "unknown"), start to end.
EvictUnknown ==
  /\ unknown_dir' =
       unknown_dir \ cleanup_oldest_files(unknown_dir, max_images_per_folder)
  /\ justEvicted' = "unknown"
  /\ UNCHANGED <<callVars, dbVars, save_dir, clock, cfgVars, queueVars, cacheVars, detVars,
                 pipeVars>>

\* periodic_cleanup, start to end: both folders.
PeriodicCleanup ==
  /\ save_dir' =
       save_dir \ cleanup_old_files_in_folder(save_dir, max_images_per_folder)
  /\ unknown_dir' =
       unknown_dir \ cleanup_old_files_in_folder(unknown_dir, max_images_per_folder)
  /\ justEvicted' = "both"
  /\ UNCHANGED <<callVars, dbVars, clock, cfgVars, queueVars, cacheVars, detVars,
                 pipeVars>>

InitEvict ==
  /\ data = <<>> /\ lastFind = NoFind
  /\ InitStaging
  /\ \E cap \in 0..MaxCap : InitConfig(Document(60, cap, 40, ListNode(<<0, 255, 0>>)))
  /\ InitQueues /\ InitCache /\ InitThreads

NextEvict == WriteCrop \/ EvictKnown \/ EvictUnknown \/ PeriodicCleanup
SpecEvict == InitEvict /\ [][NextEvict]_vars

\* C10: immediately after an eviction run on a folder, with no write in
\* between, the folder holds at most max_images_per_folder image files, for
\* every cap >= 0 and every file count.
C10_EvictionEndsWithinCap ==
  /\ justEvicted \in {"known", "both"} =>
       Cardinality(save_dir) <= max_images_per_folder
  /\ justEvicted \in {"unknown", "both"} =>
       Cardinality(unknown_dir) <= max_images_per_folder


(***************************************************************************)
(* The overlay cache over time: the recognizer emits results, the          *)
(* detection loop consumes them and queries the cache, the clock advances. *)
(***************************************************************************)
Labels == {"alice", "UNKNOWN", "NO_FACE"}

Tick ==
  /\ now < MaxTime
  /\ now' = now + 1
  /\ UNCHANGED <<callVars, dbVars, fsVars, cfgVars, queueVars, current_recognitions,
                 lastQuery, detVars, pipeVars>>

\* process_face puts the result of one crop on the results queue, stamped
\* with the time of the recognition.
EmitResult ==
  /\ face_counter < MaxFaces
  /\ face_counter' = face_counter + 1
  /\ \E person_name \in Labels, bbox \in BBoxes :
       recognition_results' = Append(recognition_results,
         [face_id |-> face_counter + 1, person_name |-> person_name,
          confidence |-> IF person_name = "alice" THEN 96 ELSE 0,
          timestamp |-> now, bbox |-> bbox])
  /\ UNCHANGED <<callVars, dbVars, fsVars, cfgVars, cleanup_queue, cacheVars, pipeVars>>

\* One iteration of the detection loop on a frame with one face at bbox:
\* update_recognition_results(), then get_recognition_for_area(bbox).
LoopIteration ==
  \E bbox \in BBoxes :
    LET upd == update_recognition_results(recognition_results,
                 current_recognitions, cleanup_queue, now)
    IN  /\ recognition_results' = <<>>
        /\ current_recognitions' = upd.cache
        /\ cleanup_queue' = <<>>  \* the cleanup worker is left out here
        /\ lastQuery' = [asked |-> TRUE, bbox |-> bbox, at |-> now,
                         result |-> get_recognition_for_area(upd.cache, bbox)]
        /\ UNCHANGED <<callVars, dbVars, fsVars, cfgVars, now, detVars,
                 pipeVars>>

InitOverlay ==
  /\ data = <<>> /\ lastFind = NoFind
  /\ InitStaging
  /\ InitConfig(DocA)
  /\ InitQueues /\ InitCache /\ InitThreads

NextOverlay == Tick \/ EmitResult \/ LoopIteration
SpecOverlay == InitOverlay /\ [][NextOverlay]_vars

\* C1: a result the overlay query returns is never older than 3 seconds,
\* also when no new result has arrived since it was cached.
C1_NoStaleOverlay ==
  (lastQuery.asked /\ lastQuery.result # NoEntry) =>
    lastQuery.at - lastQuery.result.timestamp <= RecognitionTTL

(***************************************************************************)
(* Hot reload: monitor_config_changes (main.py) calling reload_config of   *)
(* the detector and then of the recognizer, one assignment at a time,      *)
(* while config.yaml is edited and a stage thread reads its fields.  The   *)
(* detector fields followed are the first it assigns, one in the middle    *)
(* and the first whose conversion can raise.                               *)
(***************************************************************************)
cfgOther == <<dbVars, fsVars, queueVars, cacheVars, detVars, pipeVars>>
cfgRest == <<callVars, cfgOther>>

\* Somebody rewrites, breaks or removes config.yaml.
EditConfigFile ==
  /\ file_mtime < MaxEdits
  /\ file_mtime' = file_mtime + 1
  /\ config_file' \in FileStates \ {config_file}
  /\ UNCHANGED <<cm_config, fieldVars, monVars, cfgRest>>

\* The monitor finds a newer modification time and starts a reload.
MonitorPoll ==
  /\ mon.pc = "poll"
  /\ config_file.state # "missing"
  /\ file_mtime > config_last_modified
  /\ mon' = [pc |-> "det_load", current_modified |-> file_mtime,
             before |-> CurrentFields]
  /\ UNCHANGED <<srcVars, cm_config, fieldVars, config_last_modified, obs, cfgRest>>

\* ConfigManager.reload_config, called by the stage at mon.pc; lands at
\* `next` when the file loads and at "finish" with `flag` FALSE otherwise.
ReloadManager(at, next, flag) ==
  /\ mon.pc = at
  /\ IF LoadRaises(config_file)
       THEN /\ mon' = [mon EXCEPT !.pc = "finish"] @@ (flag :> FALSE)
            /\ UNCHANGED cm_config
       ELSE /\ mon' = [mon EXCEPT !.pc = next]
            /\ cm_config' = config_file.doc
  /\ UNCHANGED <<srcVars, fieldVars, config_last_modified, obs, cfgRest>>

DetectorReloadLoad == ReloadManager("det_load", "det_conf", "det_ok")

DetectorReloadConfidence ==
  /\ mon.pc = "det_conf"
  /\ confidence_threshold' = ConfidenceIn(cm_config)
  /\ mon' = [mon EXCEPT !.pc = "det_max"]
  /\ UNCHANGED <<srcVars, cm_config, max_images_per_folder, known_face_color,
                 similarity_threshold, config_last_modified, obs, cfgRest>>

DetectorReloadMaxImages ==
  /\ mon.pc = "det_max"
  /\ max_images_per_folder' = MaxImagesIn(cm_config)
  /\ mon' = [mon EXCEPT !.pc = "det_color"]
  /\ UNCHANGED <<srcVars, cm_config, confidence_threshold, known_face_color,
                 similarity_threshold, config_last_modified, obs, cfgRest>>

\* tuple(...) of the colour; a TypeError ends reload_config with False, and
\* the monitor then skips the recognizer.
DetectorReloadColor ==
  /\ mon.pc = "det_color"
  /\ IF TupleRaises(ColorNodeIn(cm_config))
       THEN /\ mon' = [mon EXCEPT !.pc = "finish"] @@ ("det_ok" :> FALSE)
            /\ UNCHANGED known_face_color
       ELSE /\ mon' = [mon EXCEPT !.pc = "rec_load"] @@ ("det_ok" :> TRUE)
            /\ known_face_color' = TupleOf(ColorNodeIn(cm_config))
  /\ UNCHANGED <<srcVars, cm_config, confidence_threshold, max_images_per_folder,
                 similarity_threshold, config_last_modified, obs, cfgRest>>

RecognizerReloadLoad == ReloadManager("rec_load", "rec_sim", "rec_ok")

\* A reload of the recognizer that leaves its threshold as it was.
RecognizerKeepsSimilarity ==
  /\ mon.pc = "rec_sim"
  /\ mon' = [mon EXCEPT !.pc = "finish"] @@ ("rec_ok" :> TRUE)
  /\ UNCHANGED <<srcVars, cm_config, fieldVars, config_last_modified, obs,
                 cfgRest>>

RecognizerReloadSimilarity ==
  /\ mon.pc = "rec_sim"
  /\ similarity_threshold' = SimilarityIn(cm_config)
  /\ mon' = [mon EXCEPT !.pc = "finish"] @@ ("rec_ok" :> TRUE)
  /\ UNCHANGED <<srcVars, cm_config, confidence_threshold, max_images_per_folder,
                 known_face_color, config_last_modified, obs, cfgRest>>

\* The reload attempt is over: config_last_modified = current_modified.
FinishAttempt ==
  /\ mon.pc = "finish"
  /\ config_last_modified' = mon.current_modified
  /\ mon' = [pc |-> "poll"]
  /\ UNCHANGED <<srcVars, cm_config, fieldVars, obs, cfgOther>>

MonitorFinish == FinishAttempt /\ UNCHANGED callVars

\* A thread of the detection stage reads the stage's fields.
StageReadsConfig ==
  /\ obs' = [read |-> TRUE,
             confidence_threshold |-> confidence_threshold,
             max_images_per_folder |-> max_images_per_folder,
             known_face_color |-> known_face_color]
  /\ UNCHANGED <<srcVars, cm_config, fieldVars, config_last_modified, mon, cfgRest>>

InitReload ==
  /\ data = <<>> /\ lastFind = NoFind
  /\ InitStaging
  /\ InitConfig(DocA)
  /\ InitQueues /\ InitCache /\ InitThreads

NextReload ==
  \/ EditConfigFile
  \/ MonitorPoll
  \/ DetectorReloadLoad
  \/ DetectorReloadConfidence
  \/ DetectorReloadMaxImages
  \/ DetectorReloadColor
  \/ RecognizerReloadLoad
  \/ RecognizerReloadSimilarity
  \/ MonitorFinish
  \/ StageReadsConfig

SpecReload == InitReload /\ [][NextReload]_vars

\* The documents both stages can be set from without an error.
Applicable == {doc \in Documents : ~TupleRaises(ColorNodeIn(doc))}

AttemptOver == mon.pc = "finish"
AttemptFailed ==
  \/ ("det_ok" \in DOMAIN mon /\ ~mon.det_ok)
  \/ ("rec_ok" \in DOMAIN mon /\ ~mon.rec_ok)

\* C5: when a reload attempt of the monitor is over, the detection stage
\* and the recognition stage hold the values of one and the same snapshot.
C5_StagesOnOneSnapshot ==
  AttemptOver => \E doc \in Applicable : CurrentFields = StageFields(doc)

\* C6: what a stage thread reads of its configuration while the monitor
\* reloads is never a mix of two snapshots.
C6_NoMixedRead ==
  obs.read =>
    \E doc \in Applicable :
      /\ obs.confidence_threshold = ConfidenceIn(doc)
      /\ obs.max_images_per_folder = MaxImagesIn(doc)
      /\ obs.known_face_color = TupleOf(ColorNodeIn(doc))

\* C7: when a reload attempt has failed, every configuration-derived field
\* of both stages has the value it had before the attempt.
C7_FailedReloadKeepsFields ==
  (AttemptOver /\ AttemptFailed) => CurrentFields = mon.before

(***************************************************************************)
(* The pipeline: the detection thread, the recognition thread, the cleanup *)
(* worker the detection thread starts, and the main thread, which stops    *)
(* both stages.  Each action is one step of one thread; a listing of a     *)
(* folder and the removal of the files chosen from it are two steps.       *)
(***************************************************************************)
PipelineStore == <<[person_name |-> "alice", mean_embedding |-> <<3, 4>>]>>
PipelineBBox == <<0, 0, 10, 10>>

\* What self.app.get returns for a crop: no face, or one face with its
\* descriptor (close to the enrolled one, or orthogonal to it).
EmbedderReturns == {<<>>, <<(<<3, 4>>)>>, <<(<<4, -3>>)>>}

Folder(name) == IF name = "known" THEN save_dir ELSE unknown_dir

\* The paths save_face tracks for a face: <id>.jpg and <id>_resized.jpg.
TrackedFiles(listing, face_id) ==
  {f \in listing : f.face_id = face_id /\ f.kind \in {"orig", "resized"}}

\* detect_faces up to its loop: running is set, the camera opens, and the
\* cleanup worker is started.
DetectStart ==
  /\ pc.det = "start"
  /\ running' = TRUE
  /\ pc' = [pc EXCEPT !.det = "loop", !.cw = "loop"]
  /\ UNCHANGED <<callVars, dbVars, fsVars, cfgVars, queueVars, cacheVars, detVars,
                 face_queue, frame, rec_running, saved_faces,
                 saved_unknown_faces, rec_local, cw_local, main_local,
                 periodic_calls, consumed>>

\* One iteration of the detection loop: update_recognition_results, then,
\* if the frame holds a face that passes the gates, save_face, the put on
\* the face queue and get_recognition_for_area.
DetectFrame ==
  /\ pc.det = "loop"
  /\ running
  /\ frame' = 1 - frame
  /\ LET upd == update_recognition_results(recognition_results,
                  current_recognitions, cleanup_queue, now)
     IN  /\ recognition_results' = <<>>
         /\ current_recognitions' = upd.cache
         /\ cleanup_queue' = upd.requests
         /\ \E accepted \in BOOLEAN :
              IF accepted
                THEN /\ face_counter < MaxFaces
                     /\ face_counter' = NextFaceId(face_counter)
                     /\ save_dir' = save_dir \cup
                          save_face(NextFaceId(face_counter), clock)
                     /\ clock' = clock + 2
                     /\ saved_faces' = saved_faces \cup {NextFaceId(face_counter)}
                     /\ face_queue' = Append(face_queue,
                          [face_id |-> NextFaceId(face_counter), bbox |-> PipelineBBox])
                     /\ lastQuery' = [asked |-> TRUE, bbox |-> PipelineBBox,
                          at |-> now,
                          result |-> get_recognition_for_area(upd.cache,
                                                              PipelineBBox)]
                ELSE UNCHANGED <<face_counter, save_dir, clock, saved_faces,
                                 face_queue, lastQuery>>
  /\ UNCHANGED <<callVars, dbVars, unknown_dir, justEvicted, cfgVars, now, running,
                 rec_running, saved_unknown_faces, pc, rec_local, cw_local,
                 main_local, periodic_calls, consumed>>

\* The 'q' key breaks the loop; running stays as it is.
DetectQuit ==
  /\ pc.det = "loop"
  /\ running
  /\ pc' = [pc EXCEPT !.det = "done"]
  /\ UNCHANGED <<callVars, dbVars, fsVars, cfgVars, queueVars, cacheVars, detVars,
                 face_queue, frame, running, rec_running, saved_faces,
                 saved_unknown_faces, rec_local, cw_local, main_local,
                 periodic_calls, consumed>>

\* while self.running ends the loop.
DetectExit ==
  /\ pc.det = "loop"
  /\ ~running
  /\ pc' = [pc EXCEPT !.det = "done"]
  /\ UNCHANGED <<callVars, dbVars, fsVars, cfgVars, queueVars, cacheVars, detVars,
                 face_queue, frame, running, rec_running, saved_faces,
                 saved_unknown_faces, rec_local, cw_local, main_local,
                 periodic_calls, consumed>>

\* recognize_faces up to its loop.
RecognizeStart ==
  /\ pc.rec = "start"
  /\ rec_running' = TRUE
  /\ pc' = [pc EXCEPT !.rec = "loop"]
  /\ UNCHANGED <<callVars, dbVars, fsVars, cfgVars, queueVars, cacheVars, detVars,
                 face_queue, frame, running, saved_faces,
                 saved_unknown_faces, rec_local, cw_local, main_local,
                 periodic_calls, consumed>>

Result(face, person_name, confidence) ==
  [face_id |-> face.face_id, person_name |-> person_name,
   confidence |-> confidence, timestamp |-> now, bbox |-> face.bbox]

\* A process_face that looks every crop up, a face found in it or not.
ProcessAlwaysQuerying(face, raised, faces) ==
  IF raised
    THEN [results |-> <<>>, queried |-> FALSE, unknown |-> FALSE]
    ELSE LET similar_person ==
               find_similar_face(data,
                 IF Len(faces) > 0 THEN faces[1] ELSE <<0, 0>>,
                 similarity_threshold)
         IN  IF similar_person # None
               THEN [results |-> <<Result(face, similar_person.person_name,
                                          similar_person.similarity)>>,
                     queried |-> TRUE, unknown |-> FALSE]
               ELSE [results |-> <<Result(face, "UNKNOWN", 0)>>,
                     queried |-> TRUE, unknown |-> TRUE]

\* A process_face that takes every crop without a match to the unknown
\* folder, a face found in it or not.
ProcessCopyingUnmatched(face, raised, faces) ==
  IF raised
    THEN [results |-> <<>>, queried |-> FALSE, unknown |-> FALSE]
    ELSE IF Len(faces) > 0 /\
            find_similar_face(data, faces[1], similarity_threshold) # None
      THEN LET similar_person ==
                 find_similar_face(data, faces[1], similarity_threshold)
           IN  [results |-> <<Result(face, similar_person.person_name,
                                     similar_person.similarity)>>,
                queried |-> TRUE, unknown |-> FALSE]
      ELSE [results |-> <<Result(face, IF Len(faces) > 0 THEN "UNKNOWN"
                                                          ELSE "NO_FACE", 0)>>,
            queried |-> Len(faces) > 0, unknown |-> TRUE]

\* process_face up to its call of handle_unknown_person: the results it
\* puts on the results queue, whether it queried the store, and whether it
\* goes on to handle_unknown_person.  raised: an exception before any put
\* (a missing field, cvtColor, the embedder), which the except clause
\* swallows.
process_face(face, raised, faces) ==
  IF raised
    THEN [results |-> <<>>, queried |-> FALSE, unknown |-> FALSE]
    ELSE IF Len(faces) > 0
      THEN LET similar_person ==
                 find_similar_face(data, faces[1], similarity_threshold)
           IN  IF similar_person # None
                 THEN [results |-> <<Result(face, similar_person.person_name,
                                            similar_person.similarity)>>,
                       queried |-> TRUE, unknown |-> FALSE]
                 ELSE [results |-> <<Result(face, "UNKNOWN", 0)>>,
                       queried |-> TRUE, unknown |-> TRUE]
      ELSE [results |-> <<Result(face, "NO_FACE", 0)>>,
            queried |-> FALSE, unknown |-> FALSE]

\* An exception raised under process_face does not leave it: except: pass.
\* (recognize_faces has an except: continue of its own around the call.)
NotSwallowed == FALSE
Swallowed == TRUE

\* One crop taken from the face queue and process_face on it, up to the put
\* of its result.
ProcessFace(raised, faces) ==
  /\ pc.rec = "loop"
  /\ rec_running
  /\ face_queue # <<>>
  /\ face_queue' = Tail(face_queue)
  /\ LET face == Head(face_queue)
         done == process_face(face, raised, faces)
     IN  /\ recognition_results' = recognition_results \o done.results
         /\ IF raised /\ ~Swallowed
              THEN /\ pc' = [pc EXCEPT !.rec = "crashed"]
                   /\ UNCHANGED rec_local
              ELSE IF done.unknown
                THEN /\ pc' = [pc EXCEPT !.rec = "unknown_write"]
                     /\ rec_local' = [face_id |-> face.face_id, files |-> {}]
                ELSE UNCHANGED <<pc, rec_local>>
  /\ UNCHANGED <<dbVars, fsVars, cfgVars, cleanup_queue, cacheVars, detVars,
                 frame, running, rec_running, saved_faces,
                 saved_unknown_faces, cw_local, main_local, periodic_calls,
                 consumed>>

RecognizeFace ==
  /\ \E raised \in BOOLEAN, faces \in EmbedderReturns :
       ProcessFace(raised, faces)
  /\ UNCHANGED callVars

\* handle_unknown_person: the copy is written to the unknown folder, and
\* cleanup_unknown_folder lists the folder and picks what to delete.
\* write_raises: os.makedirs or cv2.imwrite raises, which the except clause
\* of process_face swallows.
UnknownWrite(write_raises) ==
  /\ pc.rec = "unknown_write"
  /\ IF write_raises
       THEN /\ pc' = [pc EXCEPT !.rec = IF Swallowed THEN "loop"
                                                      ELSE "crashed"]
            /\ UNCHANGED <<clock, unknown_dir, rec_local>>
       ELSE /\ clock' = clock + 1
            /\ LET listing == unknown_dir \cup
                                {File(rec_local.face_id, "unknown", clock + 1)}
                   files_to_delete == cleanup_unknown_folder(listing)
               IN  /\ unknown_dir' = listing
                   /\ rec_local' = [rec_local EXCEPT !.files = files_to_delete]
                   /\ pc' = [pc EXCEPT !.rec = IF files_to_delete = {}
                                                 THEN "loop"
                                                 ELSE "unknown_evict"]
  /\ UNCHANGED <<dbVars, save_dir, justEvicted, cfgVars, queueVars, cacheVars,
                 detVars, face_queue, frame, running, rec_running, saved_faces,
                 saved_unknown_faces, cw_local, main_local, periodic_calls,
                 consumed>>

RecognizerUnknownWrite ==
  /\ \E write_raises \in BOOLEAN : UnknownWrite(write_raises)
  /\ UNCHANGED callVars

\* The os.remove loop of cleanup_unknown_folder.
RecognizerUnknownEvict ==
  /\ pc.rec = "unknown_evict"
  /\ unknown_dir' = unknown_dir \ rec_local.files
  /\ rec_local' = [rec_local EXCEPT !.files = {}]
  /\ pc' = [pc EXCEPT !.rec = "loop"]
  /\ UNCHANGED <<callVars, dbVars, save_dir, clock, justEvicted, cfgVars, queueVars,
                 cacheVars, detVars, face_queue, frame, running, rec_running,
                 saved_faces, saved_unknown_faces, cw_local, main_local,
                 periodic_calls, consumed>>

\* while self.running ends the recognizer's loop.
RecognizeExit ==
  /\ pc.rec = "loop"
  /\ ~rec_running
  /\ pc' = [pc EXCEPT !.rec = "done"]
  /\ UNCHANGED <<callVars, dbVars, fsVars, cfgVars, queueVars, cacheVars, detVars,
                 face_queue, frame, running, rec_running, saved_faces,
                 saved_unknown_faces, rec_local, cw_local, main_local,
                 periodic_calls, consumed>>

\* One request taken from the cleanup queue by cleanup_worker, and
\* cleanup_known_faces or cleanup_unknown_faces on it up to the listing of
\* cleanup_oldest_files: the folder is counted, the files tracked for the
\* face are deleted and the face untracked, and, if the count taken before
\* that exceeded the cap, the folder is listed and the oldest files picked.
CleanupWorkerRequest ==
  /\ pc.cw = "loop"
  /\ running
  /\ cleanup_queue # <<>>
  /\ cleanup_queue' = Tail(cleanup_queue)
  /\ LET cleanup_request == Head(cleanup_queue)
         face_id == cleanup_request.face_id
         folder == IF cleanup_request.person_name # "UNKNOWN"
                     THEN "known" ELSE "unknown"
         tracked == IF folder = "known" THEN saved_faces
                                        ELSE saved_unknown_faces
         image_count == Cardinality(Folder(folder))
         listing == IF face_id \in tracked
                      THEN Folder(folder) \ TrackedFiles(Folder(folder), face_id)
                      ELSE Folder(folder)
         files_to_delete == IF image_count > max_images_per_folder
                              THEN cleanup_oldest_files(listing,
                                                        max_images_per_folder)
                              ELSE {}
     IN  /\ IF folder = "known"
              THEN /\ save_dir' = listing
                   /\ saved_faces' = saved_faces \ {face_id}
                   /\ UNCHANGED <<unknown_dir, saved_unknown_faces>>
              ELSE /\ unknown_dir' = listing
                   /\ saved_unknown_faces' = saved_unknown_faces \ {face_id}
                   /\ UNCHANGED <<save_dir, saved_faces>>
         /\ cw_local' = [folder |-> folder, files |-> files_to_delete]
         /\ pc' = [pc EXCEPT !.cw = IF files_to_delete = {}
                                      THEN "loop" ELSE "evict"]
         /\ consumed' = consumed \cup
              {[face_id |-> face_id, category |-> folder, at |-> clock]}
  /\ UNCHANGED <<callVars, dbVars, clock, justEvicted, cfgVars, recognition_results,
                 cacheVars, detVars, face_queue, frame, running, rec_running,
                 rec_local, main_local, periodic_calls>>

\* The os.remove loop of cleanup_oldest_files.
CleanupWorkerEvict ==
  /\ pc.cw = "evict"
  /\ IF cw_local.folder = "known"
       THEN save_dir' = save_dir \ cw_local.files /\ UNCHANGED unknown_dir
       ELSE unknown_dir' = unknown_dir \ cw_local.files /\ UNCHANGED save_dir
  /\ cw_local' = [cw_local EXCEPT !.files = {}]
  /\ pc' = [pc EXCEPT !.cw = "loop"]
  /\ UNCHANGED <<callVars, dbVars, clock, justEvicted, cfgVars, queueVars, cacheVars,
                 detVars, face_queue, frame, running, rec_running, saved_faces,
                 saved_unknown_faces, rec_local, main_local, periodic_calls,
                 consumed>>

\* while self.running ends the worker's loop.
CleanupWorkerLeave ==
  /\ pc.cw = "loop"
  /\ ~running
  /\ pc' = [pc EXCEPT !.cw = "after_loop"]
  /\ UNCHANGED <<callVars, dbVars, fsVars, cfgVars, queueVars, cacheVars, detVars,
                 face_queue, frame, running, rec_running, saved_faces,
                 saved_unknown_faces, rec_local, cw_local, main_local,
                 periodic_calls, consumed>>

\* What follows the loop of cleanup_worker: if self.running:
\* self.periodic_cleanup().
CleanupWorkerEnd ==
  /\ pc.cw = "after_loop"
  /\ pc' = [pc EXCEPT !.cw = "done"]
  /\ IF running
       THEN /\ save_dir' = save_dir \
                 cleanup_old_files_in_folder(save_dir, max_images_per_folder)
            /\ unknown_dir' = unknown_dir \
                 cleanup_old_files_in_folder(unknown_dir, max_images_per_folder)
            /\ periodic_calls' = periodic_calls + 1
       ELSE UNCHANGED <<save_dir, unknown_dir, periodic_calls>>
  /\ UNCHANGED <<callVars, dbVars, clock, justEvicted, cfgVars, queueVars, cacheVars,
                 detVars, face_queue, frame, running, rec_running, saved_faces,
                 saved_unknown_faces, rec_local, cw_local, main_local,
                 consumed>>

\* main leaves its wait loop (an interrupt, or a thread that ended) and
\* calls face_detector.stop(): running is cleared and periodic_cleanup
\* begins.
StopDetector ==
  /\ pc.main = "wait"
  /\ running' = FALSE
  /\ periodic_calls' = periodic_calls + 1
  /\ pc' = [pc EXCEPT !.main = "sweep_known"]
  /\ UNCHANGED <<callVars, dbVars, fsVars, cfgVars, queueVars, cacheVars, detVars,
                 face_queue, frame, rec_running, saved_faces,
                 saved_unknown_faces, rec_local, cw_local, main_local,
                 consumed>>

\* periodic_cleanup, first folder: cleanup_old_files_in_folder lists the
\* primary folder and picks what to delete.
SweepKnownList ==
  /\ pc.main = "sweep_known"
  /\ LET files_to_delete ==
           cleanup_old_files_in_folder(save_dir, max_images_per_folder)
     IN  /\ main_local' = files_to_delete
         /\ pc' = [pc EXCEPT !.main = IF files_to_delete = {}
                                        THEN "sweep_unknown"
                                        ELSE "sweep_known_delete"]
  /\ UNCHANGED <<callVars, dbVars, fsVars, cfgVars, queueVars, cacheVars, detVars,
                 face_queue, frame, running, rec_running, saved_faces,
                 saved_unknown_faces, rec_local, cw_local, periodic_calls,
                 consumed>>

SweepKnownDelete ==
  /\ pc.main = "sweep_known_delete"
  /\ save_dir' = save_dir \ main_local
  /\ main_local' = {}
  /\ pc' = [pc EXCEPT !.main = "sweep_unknown"]
  /\ UNCHANGED <<callVars, dbVars, unknown_dir, clock, justEvicted, cfgVars, queueVars,
                 cacheVars, detVars, face_queue, frame, running, rec_running,
                 saved_faces, saved_unknown_faces, rec_local, cw_local,
                 periodic_calls, consumed>>

\* periodic_cleanup, second folder.
SweepUnknownList ==
  /\ pc.main = "sweep_unknown"
  /\ LET files_to_delete ==
           cleanup_old_files_in_folder(unknown_dir, max_images_per_folder)
     IN  /\ main_local' = files_to_delete
         /\ pc' = [pc EXCEPT !.main = IF files_to_delete = {}
                                        THEN "stop_recognizer"
                                        ELSE "sweep_unknown_delete"]
  /\ UNCHANGED <<callVars, dbVars, fsVars, cfgVars, queueVars, cacheVars, detVars,
                 face_queue, frame, running, rec_running, saved_faces,
                 saved_unknown_faces, rec_local, cw_local, periodic_calls,
                 consumed>>

SweepUnknownDelete ==
  /\ pc.main = "sweep_unknown_delete"
  /\ unknown_dir' = unknown_dir \ main_local
  /\ main_local' = {}
  /\ pc' = [pc EXCEPT !.main = "stop_recognizer"]
  /\ UNCHANGED <<callVars, dbVars, save_dir, clock, justEvicted, cfgVars, queueVars,
                 cacheVars, detVars, face_queue, frame, running, rec_running,
                 saved_faces, saved_unknown_faces, rec_local, cw_local,
                 periodic_calls, consumed>>

\* face_recognizer.stop().
StopRecognizer ==
  /\ pc.main = "stop_recognizer"
  /\ rec_running' = FALSE
  /\ pc' = [pc EXCEPT !.main = "done"]
  /\ UNCHANGED <<callVars, dbVars, fsVars, cfgVars, queueVars, cacheVars, detVars,
                 face_queue, frame, running, saved_faces,
                 saved_unknown_faces, rec_local, cw_local, main_local,
                 periodic_calls, consumed>>

\* The state once main has started its threads: one enrolled person, the
\* loaded configuration, an unknown folder that is empty or left from the
\* last run.
Init ==
  /\ data = PipelineStore /\ lastFind = NoFind
  /\ save_dir = {} /\ clock = 0 /\ justEvicted = "none"
  /\ unknown_dir \in {{}, LeftFromLastRun}
  /\ InitConfig(DocA)
  /\ InitQueues /\ InitCache /\ InitThreads

DetectionThread == DetectStart \/ DetectFrame \/ DetectExit
RecognitionThread ==
  \/ RecognizeStart \/ RecognizeFace \/ RecognizerUnknownWrite
  \/ RecognizerUnknownEvict \/ RecognizeExit
CleanupThread ==
  \/ CleanupWorkerRequest \/ CleanupWorkerEvict
  \/ CleanupWorkerLeave \/ CleanupWorkerEnd
Shutdown ==
  \/ (pc.det = "done" \/ pc.rec = "done") /\ StopDetector
  \/ SweepKnownList \/ SweepKnownDelete \/ SweepUnknownList
  \/ SweepUnknownDelete \/ StopRecognizer

Next ==
  \/ DetectStart \/ DetectFrame \/ DetectQuit \/ DetectExit
  \/ RecognizeStart \/ RecognizeFace \/ RecognizerUnknownWrite
  \/ RecognizerUnknownEvict \/ RecognizeExit
  \/ CleanupWorkerRequest \/ CleanupWorkerEvict
  \/ CleanupWorkerLeave \/ CleanupWorkerEnd
  \/ StopDetector \/ SweepKnownList \/ SweepKnownDelete
  \/ SweepUnknownList \/ SweepUnknownDelete \/ StopRecognizer

Spec == Init /\ [][Next]_vars

\* Every started thread keeps taking its steps, and main leaves its wait
\* loop once a stage thread has ended.  Nothing obliges a face to show up,
\* the 'q' key to be pressed or main to be interrupted.
FairSpec ==
  /\ Spec
  /\ WF_vars(DetectionThread)
  /\ WF_vars(RecognitionThread)
  /\ WF_vars(CleanupThread)
  /\ WF_vars(Shutdown)

\* The detection stage is running: its loop is entered and not yet left.
StageRunning == running /\ pc.det = "loop"
OverCap == Cardinality(save_dir) > max_images_per_folder

\* C3: whenever the primary folder holds more than max_images_per_folder
\* files while the detection stage is running, an eviction eventually
\* brings the count back to the cap or below (or the stage stops running).
C3_OverCapLeadsToEviction ==
  (StageRunning /\ OverCap) ~> (~OverCap \/ ~StageRunning)

\* C4: while the pipeline runs, periodic_cleanup is eventually invoked: a
\* running stage leads to a call of periodic_cleanup before it stops.
C4_PeriodicCleanupWhileRunning ==
  StageRunning ~> (periodic_calls > 0 \/ ~StageRunning)

\* C8: once the cleanup request for a face and a category has been
\* consumed, the category's folder holds no file of that face that was
\* there when the request was consumed, and the face is not tracked.
C8_ConsumedRequestLeavesNoFile ==
  \A c \in consumed :
    /\ ~ \E f \in Folder(c.category) :
           f.face_id = c.face_id /\ f.ctime <= c.at
    /\ c.face_id \notin (IF c.category = "known" THEN saved_faces
                                                 ELSE saved_unknown_faces)

\* The threads that have listed a folder and are removing files from it.
Deleters(folder) ==
  {t \in {"rec", "cw", "main"} :
     \/ t = "rec" /\ folder = "unknown" /\ pc.rec = "unknown_evict"
     \/ t = "cw" /\ pc.cw = "evict" /\ cw_local.folder = folder
     \/ t = "main" /\ folder = "known" /\ pc.main = "sweep_known_delete"
     \/ t = "main" /\ folder = "unknown" /\ pc.main = "sweep_unknown_delete"}

\* C9: no two threads are deleting files of the same category folder at
\* the same time.
C9_OneDeleterPerFolder ==
  \A folder \in {"known", "unknown"} : Cardinality(Deleters(folder)) <= 1

(***************************************************************************)
(* One detected region through the gates of the detection loop.           *)
(***************************************************************************)
\* The body of the loop over boxes, for one box of one frame: the two
\* gates, then save_face, the put on the face queue and the overlay query.
DetectRegion ==
  /\ seen.op = "none"
  /\ \E box \in Regions, conf \in Confidences :
       /\ seen' = [op |-> "region", box |-> box, conf |-> conf,
                   shape |-> FrameShape]
       /\ IF /\ ConfidentEnough(conf, confidence_threshold)
             /\ LargeEnough(PaddedCropShape(box, FrameShape))
            THEN /\ face_counter' = NextFaceId(face_counter)
                 /\ save_dir' = save_dir \cup
                      save_face(NextFaceId(face_counter), clock)
                 /\ clock' = clock + 2
                 /\ saved_faces' = saved_faces \cup {NextFaceId(face_counter)}
                 /\ face_queue' = Append(face_queue,
                      [face_id |-> NextFaceId(face_counter), bbox |-> box])
                 /\ lastQuery' = [asked |-> TRUE, bbox |-> box, at |-> now,
                      result |-> get_recognition_for_area(
                                   current_recognitions, box)]
            ELSE UNCHANGED <<face_counter, save_dir, clock, saved_faces,
                             face_queue, lastQuery>>
  /\ UNCHANGED <<dbVars, unknown_dir, justEvicted, cfgVars, queueVars,
                 current_recognitions, now, frame, running, rec_running,
                 saved_unknown_faces, pc, rec_local, cw_local, main_local,
                 periodic_calls, consumed>>

InitGate ==
  /\ data = <<>> /\ lastFind = NoFind
  /\ InitStaging
  /\ InitConfig(DocA)
  /\ InitQueues /\ InitCache /\ InitThreads
NextGate == DetectRegion
SpecGate == InitGate /\ [][NextGate]_vars

\* The crop the region yields once each side is padded by half the box's
\* width or height and the result is clamped to the frame.
ClampedWidth(box, shape) ==
  Min({shape[2], box[3] + (box[3] - box[1]) \div 2})
    - Max({0, box[1] - (box[3] - box[1]) \div 2})
ClampedHeight(box, shape) ==
  Min({shape[1], box[4] + (box[4] - box[2]) \div 2})
    - Max({0, box[2] - (box[4] - box[2]) \div 2})

\* C11: a region is put on the face queue, or staged, only if its
\* confidence is strictly above confidence_threshold and its padded and
\* clamped crop is more than 100 high and more than 100 wide.
C11_OnlyGatedCropsEnqueued ==
  seen.op = "region" /\ (face_queue # <<>> \/ save_dir # {}) =>
    /\ seen.conf > confidence_threshold
    /\ ClampedWidth(seen.box, seen.shape) > 100
    /\ ClampedHeight(seen.box, seen.shape) > 100

\* A region just wide enough (101 after padding) went through.
C11_Witness ==
  /\ seen.op = "region"
  /\ face_queue # <<>>
  /\ ClampedWidth(seen.box, seen.shape) = 101

(***************************************************************************)
(* get_recognition_for_area on every small cache.                          *)
(***************************************************************************)
\* Boxes of positive area: equal ones, nested ones with an overlap of
\* exactly 0.3, of 0.5 and of 0.8, and a disjoint one.
QueryBoxes ==
  {<<0, 0, 10, 10>>, <<0, 0, 3, 10>>, <<0, 0, 5, 10>>, <<0, 0, 10, 8>>,
   <<2, 0, 10, 10>>, <<20, 20, 30, 30>>}

\* The caches update_recognition_results can leave: results of distinct
\* faces, in the order their face_id was first stored.
CachedResults(face_id) ==
  {[face_id |-> face_id, person_name |-> person_name,
    confidence |-> IF person_name = "alice" THEN 96 ELSE 0,
    timestamp |-> 0, bbox |-> bbox] :
     person_name \in {"alice", "UNKNOWN"}, bbox \in QueryBoxes}
Caches ==
  UNION {{cache \in [1..n -> UNION {CachedResults(i) : i \in 1..n}] :
            \A i \in 1..n : cache[i].face_id = i} : n \in 0..MaxCache}

\* One call of get_recognition_for_area.
QueryArea ==
  /\ \E bbox \in QueryBoxes :
       lastQuery' = [asked |-> TRUE, bbox |-> bbox, at |-> now,
                     result |-> get_recognition_for_area(current_recognitions,
                                                         bbox)]
  /\ UNCHANGED <<callVars, dbVars, fsVars, cfgVars, queueVars,
                 current_recognitions, now, detVars, pipeVars>>

InitQuery ==
  /\ data = <<>> /\ lastFind = NoFind
  /\ InitStaging
  /\ InitConfig(DocA)
  /\ InitQueues /\ InitThreads
  /\ current_recognitions \in Caches
  /\ face_counter = Len(current_recognitions)
  /\ now = 0
  /\ lastQuery = [asked |-> FALSE]
NextQuery == QueryArea
SpecQuery == InitQuery /\ [][NextQuery]_vars

\* The overlap of the last query's box with the i-th cached result.
OverlapWith(i) ==
  calculate_bbox_overlap(lastQuery.bbox, current_recognitions[i].bbox)
\* The i-th cached result has the maximum overlap, and is the first to.
FirstMaximum(i) ==
  /\ \A j \in 1..Len(current_recognitions) :
       ~RatioGreater(OverlapWith(j), OverlapWith(i))
  /\ \A j \in 1..(i - 1) : RatioGreater(OverlapWith(i), OverlapWith(j))

\* C12: get_recognition_for_area yields the cached result whose overlap
\* with the box is the maximum, the first scanned among equals, when that
\* maximum is above 0.3, and nothing when no cached result overlaps the box
\* by more than 0.3 or the cache is empty.
C12_QueryReturnsFirstMaximum ==
  lastQuery.asked =>
    IF \E i \in 1..Len(current_recognitions) : AboveOverlapGate(OverlapWith(i))
      THEN \E i \in 1..Len(current_recognitions) :
             FirstMaximum(i) /\ lastQuery.result = current_recognitions[i]
      ELSE lastQuery.result = NoEntry

\* A query with two cached results above the gate, the second the better.
C12_Witness ==
  /\ lastQuery.asked
  /\ Len(current_recognitions) = 2
  /\ AboveOverlapGate(OverlapWith(1))
  /\ RatioGreater(OverlapWith(2), OverlapWith(1))
  /\ lastQuery.result = current_recognitions[2]

(***************************************************************************)
(* calculate_bbox_overlap on every pair of boxes.                          *)
(***************************************************************************)
\* Integer boxes: overlapping, nested, touching and disjoint ones, boxes of
\* no width or no height, and boxes whose corners are swapped.
OverlapBoxes ==
  {<<0, 0, 10, 10>>, <<0, 0, 3, 10>>, <<5, 5, 15, 15>>, <<10, 0, 20, 10>>,
   <<10, 10, 20, 20>>, <<20, 20, 30, 30>>, <<-5, -5, 5, 5>>, <<2, 2, 4, 4>>,
   <<5, 5, 5, 9>>, <<3, 3, 3, 3>>, <<10, 10, 0, 0>>, <<8, 2, 2, 8>>}

\* One call of calculate_bbox_overlap.
CalculateOverlap ==
  /\ \E bbox1 \in OverlapBoxes, bbox2 \in OverlapBoxes :
       seen' = [op |-> "overlap", bbox1 |-> bbox1, bbox2 |-> bbox2,
                value |-> calculate_bbox_overlap(bbox1, bbox2)]
  /\ UNCHANGED <<dbVars, fsVars, cfgVars, queueVars, cacheVars, detVars,
                 pipeVars>>

InitOverlap ==
  /\ data = <<>> /\ lastFind = NoFind
  /\ InitStaging
  /\ InitConfig(DocA)
  /\ InitQueues /\ InitCache /\ InitThreads
NextOverlap == CalculateOverlap
SpecOverlap == InitOverlap /\ [][NextOverlap]_vars

\* The two boxes share no interior point: apart, or touching at most.
Apart(a, b) ==
  \/ a[3] <= b[1] \/ b[3] <= a[1]
  \/ a[4] <= b[2] \/ b[4] <= a[2]
PositiveArea(a) == a[1] < a[3] /\ a[2] < a[4]

\* The value is 0, is 1, lies in [0, 1].
IsZero(value) == value[1] = 0
IsOne(value) == value[1] = value[2]
InUnitInterval(value) == value[2] > 0 /\ 0 <= value[1] /\ value[1] <= value[2]

\* C13 as stated: 0 for boxes that are apart, 1 for every pair of identical
\* boxes, in [0, 1] for all integer boxes.
C13_AsStated ==
  seen.op = "overlap" =>
    /\ Apart(seen.bbox1, seen.bbox2) =>
         IsZero(seen.value) /\ ~AboveOverlapGate(seen.value)
    /\ seen.bbox1 = seen.bbox2 => IsOne(seen.value)
    /\ InUnitInterval(seen.value)

\* C13: calculate_bbox_overlap yields 0 for boxes that are apart or merely
\* touching, which the query then rejects; 1 for identical boxes of positive
\* area, and 0 for identical boxes of no area; a value in [0, 1] for all
\* integer boxes.
C13_OverlapOfPositiveAreaBoxes ==
  seen.op = "overlap" =>
    /\ Apart(seen.bbox1, seen.bbox2) =>
         IsZero(seen.value) /\ ~AboveOverlapGate(seen.value)
    /\ seen.bbox1 = seen.bbox2 =>
         IF PositiveArea(seen.bbox1) THEN IsOne(seen.value)
                                     ELSE IsZero(seen.value)
    /\ InUnitInterval(seen.value)

\* The overlap of a box of positive area with itself was computed.
C13_Witness ==
  /\ seen.op = "overlap"
  /\ seen.bbox1 = seen.bbox2
  /\ PositiveArea(seen.bbox1)
  /\ IsOne(seen.value)

(***************************************************************************)
(* find_similar_face on whatever load_database made of the database file.  *)
(***************************************************************************)
InitLoad ==
  /\ \E file \in DatabaseFiles :
       /\ data = load_database(file)
       /\ seen = [op |-> "load_database", file |-> file]
  /\ lastFind = NoFind
  /\ InitStaging
  /\ InitConfig(DocA)
  /\ InitQueues /\ InitCache
  /\ face_queue = <<>> /\ frame = 0 /\ running = FALSE /\ rec_running = FALSE
  /\ saved_faces = {} /\ saved_unknown_faces = {}
  /\ pc = [det |-> "start", rec |-> "start", cw |-> "idle", main |-> "wait"]
  /\ rec_local = [face_id |-> 0, files |-> {}]
  /\ cw_local = [folder |-> "known", files |-> {}]
  /\ main_local = {} /\ periodic_calls = 0 /\ consumed = {}
NextLoad == FindSimilarFace
SpecLoad == InitLoad /\ [][NextLoad]_vars

\* The database is missing, unreadable, unparsable, empty, or holds a
\* record whose descriptor is absent or of the wrong length.
EmptyOrMalformed(file) ==
  \/ file.state # "json"
  \/ file.value = <<>>
  \/ \E i \in 1..Len(file.value) :
       file.value[i].mean_embedding \in {Malformed, WrongLength}

\* C14: when the identity database is missing, unreadable, unparsable,
\* empty or holds a malformed record, every find_similar_face query returns
\* none (and none raises).
C14_MalformedDatabaseYieldsNone ==
  (seen.op = "load_database" /\ lastFind.called /\ EmptyOrMalformed(seen.file))
    => lastFind.result = None

(***************************************************************************)
(* The recognition thread alone, on a face queue filled beforehand, with   *)
(* every call of process_face recorded.                                    *)
(***************************************************************************)
\* The crops the detection loop queued, and what save_face wrote for them.
QueuedFaces(n) == [i \in 1..n |-> [face_id |-> i, bbox |-> PipelineBBox]]
StagedFor(n) ==
  UNION {{File(i, "orig", 2 * i - 1), File(i, "resized", 2 * i)} : i \in 1..n}

InitRunning(store) ==
  /\ data = store /\ lastFind = NoFind
  /\ \E n \in 1..MaxFaces :
       /\ face_queue = QueuedFaces(n)
       /\ face_counter = n
       /\ save_dir = StagedFor(n)
       /\ clock = 2 * n
       /\ saved_faces = 1..n
  /\ unknown_dir \in {{}, LeftFromLastRun}
  /\ justEvicted = "none"
  /\ InitConfig(DocA)
  /\ InitQueues
  /\ current_recognitions = <<>> /\ now = 0 /\ lastQuery = [asked |-> FALSE]
  /\ frame = 0 /\ running = TRUE /\ rec_running = TRUE
  /\ saved_unknown_faces = {}
  /\ pc = [det |-> "loop", rec |-> "loop", cw |-> "loop", main |-> "wait"]
  /\ rec_local = [face_id |-> 0, files |-> {}]
  /\ cw_local = [folder |-> "known", files |-> {}]
  /\ main_local = {} /\ periodic_calls = 0 /\ consumed = {}

NoCalls == [op |-> "process_face", calls |-> <<>>]

InitRecognizer == InitRunning(PipelineStore) /\ seen = NoCalls

\* process_face on the next crop, recorded.
ObservedProcessFace ==
  \E raised \in BOOLEAN, faces \in EmbedderReturns :
    /\ ProcessFace(raised, faces)
    /\ LET face == Head(face_queue)
           done == process_face(face, raised, faces)
       IN  seen' = [seen EXCEPT !.calls = Append(@,
             [face_id |-> face.face_id, raised |-> raised, faces |-> faces,
              queried |-> done.queried, results |-> done.results,
              write |-> IF done.unknown THEN "pending" ELSE "none"])]

\* handle_unknown_person for the crop in hand, recorded.
ObservedUnknownWrite ==
  \E write_raises \in BOOLEAN :
    /\ UnknownWrite(write_raises)
    /\ seen' = [seen EXCEPT !.calls[Len(seen.calls)].write =
                  IF write_raises THEN "raised" ELSE "done"]

NextRecognizer ==
  ObservedProcessFace \/ ObservedUnknownWrite \/ RecognizerUnknownEvict
SpecRecognizer == InitRecognizer /\ [][NextRecognizer]_vars
FairRecognizer == SpecRecognizer /\ WF_vars(NextRecognizer)

\* The results put so far for a face, and the copies in the unknown folder.
ResultsFor(face_id) ==
  SelectSeq(recognition_results, LAMBDA r : r.face_id = face_id)
UnknownCopiesOf(face_id) ==
  {f \in unknown_dir : f.face_id = face_id /\ f.kind = "unknown"}
Calls == {seen.calls[i] : i \in 1..Len(seen.calls)}

\* C15: when the embedder returns no descriptor for a crop, process_face
\* puts exactly one result for it, NO_FACE with confidence 0, queries the
\* identity store not at all and writes nothing to the unknown folder.
C15_NoFaceResult ==
  seen.op = "process_face" =>
    \A call \in Calls :
      (~call.raised /\ call.faces = <<>>) =>
        /\ Len(ResultsFor(call.face_id)) = 1
        /\ ResultsFor(call.face_id)[1].person_name = "NO_FACE"
        /\ ResultsFor(call.face_id)[1].confidence = 0
        /\ ~call.queried
        /\ call.write = "none"
        /\ UnknownCopiesOf(call.face_id) = {}

\* A crop without a face was processed after another crop.
C15_Witness ==
  /\ seen.op = "process_face"
  /\ Len(seen.calls) = 2
  /\ ~seen.calls[2].raised /\ seen.calls[2].faces = <<>>
  /\ Len(ResultsFor(2)) = 1

UnknownResult(call) ==
  call.results # <<>> /\ call.results[1].person_name = "UNKNOWN"

\* C16: a copy is written to the unknown folder for a crop if and only if
\* the crop's result is UNKNOWN: never for a matched or a NO_FACE crop, and
\* for every UNKNOWN crop within its process_face call, before the next
\* crop is taken (the write itself not raising).
C16_UnknownCopyIffUnknown ==
  seen.op = "process_face" =>
    /\ \A call \in Calls :
         /\ UnknownResult(call) <=> call.write # "none"
         /\ (UnknownResult(call) /\ call.write \notin {"pending", "raised"})
              <=> UnknownCopiesOf(call.face_id) # {}
         /\ Cardinality(UnknownCopiesOf(call.face_id)) <= 1
    /\ \A i \in 1..Len(seen.calls) :
         seen.calls[i].write = "pending" =>
           /\ i = Len(seen.calls)
           /\ pc.rec = "unknown_write"
           /\ rec_local.face_id = seen.calls[i].face_id

\* An UNKNOWN crop got its copy, after a matched crop that got none.
C16_Witness ==
  /\ seen.op = "process_face"
  /\ Len(seen.calls) = 2
  /\ seen.calls[1].results # <<>>
  /\ seen.calls[1].results[1].person_name = "alice"
  /\ UnknownResult(seen.calls[2])
  /\ UnknownCopiesOf(2) # {}

(***************************************************************************)
(* The running pipeline from results to cleanup: the recognition thread,   *)
(* the detection loop that turns results into cleanup requests, and the    *)
(* cleanup worker, over stores with any identity name.                     *)
(***************************************************************************)
\* One enrolled person, whose name is any JSON key.
RoutingStores ==
  {<<[person_name |-> name, mean_embedding |-> <<3, 4>>]>> :
     name \in {"alice", "UNKNOWN"}}

InitRouting == seen = NoCalls /\ \E store \in RoutingStores : InitRunning(store)
NextRouting ==
  \/ ObservedProcessFace \/ ObservedUnknownWrite \/ RecognizerUnknownEvict
  \/ DetectFrame
  \/ CleanupWorkerRequest \/ CleanupWorkerEvict
SpecRouting == InitRouting /\ [][NextRouting]_vars

\* How process_face ended for a crop.
Matched(call) == call.results # <<>> /\ call.queried /\ call.write = "none"
Unmatched(call) == call.results # <<>> /\ call.queried /\ call.write # "none"

\* The cleanup requests made so far for a face: waiting, or consumed.
WaitingFor(face_id) ==
  SelectSeq(cleanup_queue, LAMBDA req : req.face_id = face_id)
ConsumedFor(face_id) == {c \in consumed : c.face_id = face_id}

\* C17: every result taken off the results queue gave rise to exactly one
\* cleanup request, consumed at most once; the request of a matched crop,
\* whatever the name of the identity, is handled as a known-category
\* cleanup and the request of an unmatched crop as an unknown-category one.
C17_OneRequestRoutedByOutcome ==
  seen.op = "process_face" =>
    \A call \in Calls :
      /\ Len(WaitingFor(call.face_id)) + Cardinality(ConsumedFor(call.face_id))
           = Len(call.results) - Len(ResultsFor(call.face_id))
      /\ \A c \in ConsumedFor(call.face_id) :
           /\ Matched(call) => c.category = "known"
           /\ Unmatched(call) => c.category = "unknown"

(***************************************************************************)
(* Hot reload under the running recognition thread: config.yaml is edited, *)
(* the monitor reloads both stages, and process_face decides on the crops  *)
(* of the face queue in between.                                           *)
(***************************************************************************)
\* What the embedder returns here: a descriptor at similarity 0.5 to the
\* enrolled one (33 / 65), which the thresholds of the documents tell apart.
BorderlineFaces == {<<(<<-5, 12>>)>>}

InitHotReload ==
  /\ InitRunning(PipelineStore)
  /\ seen = [op |-> "hot_reload", last |-> "none", failed |-> FALSE,
             decisions |-> <<>>]

\* The end of a reload attempt, with its outcome recorded.
ObservedMonitorFinish ==
  /\ FinishAttempt
  /\ seen' = [seen EXCEPT !.last = IF AttemptFailed THEN "failed" ELSE "ok",
                          !.failed = @ \/ AttemptFailed]

\* The monitor has polled since the last change of config.yaml, and the
\* reload it started has ended well.
ReloadedLatest ==
  /\ mon.pc = "poll"
  /\ config_last_modified = file_mtime
  /\ seen.last = "ok"

\* process_face on the next crop, recorded with the state of the reload.
DecidingProcessFace ==
  \E faces \in BorderlineFaces :
    /\ ProcessFace(FALSE, faces)
    /\ LET face == Head(face_queue)
           done == process_face(face, FALSE, faces)
       IN  seen' = [seen EXCEPT !.decisions = Append(@,
             [embedding |-> faces[1], results |-> done.results,
              reloaded |-> ReloadedLatest, file |-> config_file,
              after_failure |-> seen.failed])]

NextHotReload ==
  \/ EditConfigFile
  \/ MonitorPoll
  \/ DetectorReloadLoad
  \/ DetectorReloadConfidence
  \/ DetectorReloadMaxImages
  \/ DetectorReloadColor
  \/ RecognizerReloadLoad
  \/ RecognizerReloadSimilarity
  \/ ObservedMonitorFinish
  \/ DecidingProcessFace
  \/ RecognizerUnknownWrite
  \/ RecognizerUnknownEvict
SpecHotReload == InitHotReload /\ [][NextHotReload]_vars

Decisions == {seen.decisions[i] : i \in 1..Len(seen.decisions)}

\* The label process_face gives a descriptor under a threshold.
LabelUnder(embedding, threshold) ==
  LET similar_person == find_similar_face(data, embedding, threshold)
  IN  IF similar_person = None THEN "UNKNOWN" ELSE similar_person.person_name

\* C18: once the monitor has polled after the last change of config.yaml
\* and its reload has succeeded, every match decision of process_face is
\* the one under the similarity threshold now in the file, also when an
\* earlier reload attempt of the run had failed.
C18_DecisionsUseReloadedThreshold ==
  seen.op = "hot_reload" =>
    \A d \in Decisions :
      d.reloaded =>
        /\ d.file.state = "ok"
        /\ Len(d.results) = 1
        /\ d.results[1].person_name =
             LabelUnder(d.embedding, SimilarityIn(d.file.doc))

\* A decision under a threshold changed to 0.6, which a reload picked up
\* after an earlier attempt had failed: the borderline crop is UNKNOWN.
C18_Witness ==
  /\ seen.op = "hot_reload"
  /\ \E d \in Decisions :
       /\ d.reloaded /\ d.after_failure
       /\ SimilarityIn(d.file.doc) = 60
       /\ d.results[1].person_name = "UNKNOWN"

(***************************************************************************)
(* The recognition thread on stores whose lookup can fail, scheduled until *)
(* its queue is empty.                                                     *)
(***************************************************************************)
\* The enrolled person, or a record of it that lacks its descriptor (the
\* lookup of find_similar_face raises on it).
FailureStores ==
  {PipelineStore, <<[person_name |-> "alice", mean_embedding |-> Malformed]>>}

InitFailures ==
  seen = NoCalls /\ \E store \in FailureStores : InitRunning(store)
SpecFailures == InitFailures /\ [][NextRecognizer]_vars
FairFailures == SpecFailures /\ WF_vars(NextRecognizer)

\* A call of process_face in which something failed.
LookupRaises ==
  \E i \in 1..Len(data) : data[i].mean_embedding = Malformed
Failed(call) ==
  \/ call.raised
  \/ call.write = "raised"
  \/ call.queried /\ LookupRaises

\* C19: whatever fails while a crop is processed, the recognition thread
\* stays in its loop and has put at most one result for the crop, and it
\* gets to process every crop of the queue.
C19_FailuresAreSwallowed ==
  /\ [](pc.rec # "crashed"
          /\ \A call \in Calls : Len(ResultsFor(call.face_id)) <= 1)
  /\ <>(face_queue = <<>> /\ Len(seen.calls) = face_counter
          /\ pc.rec = "loop")

\* A crop processed after the processing of an earlier crop had failed.
C19_Witness ==
  /\ seen.op = "process_face"
  /\ pc.rec = "loop"
  /\ \E i, j \in 1..Len(seen.calls) :
       /\ i < j
       /\ Failed(seen.calls[i])
       /\ seen.calls[j].results # <<>>

\* Both stop() calls have been made; every loop has been left (the cleanup
\* worker, if detect_faces ever started it).
BothStopped == pc.main = "done"
AllExited ==
  pc.det = "done" /\ pc.rec = "done" /\ pc.cw \in {"idle", "done"}

\* C20: once stop() has been called on the detector and on the recognizer,
\* the detection loop, the recognition loop and the cleanup worker all come
\* to an end, however the stop() calls interleave with the start of the
\* threads.
C20_StopLeadsToExit == BothStopped ~> AllExited

(***************************************************************************)
(* Start-up: main() from the check of the database path to its wait loop,  *)
(* and the first statements of the two threads it starts.  Whether the     *)
(* database path exists and whether the camera opens is given.             *)
(***************************************************************************)
InitStartup ==
  /\ data = PipelineStore /\ lastFind = NoFind
  /\ save_dir = {} /\ clock = 0 /\ justEvicted = "none"
  /\ unknown_dir \in {{}, LeftFromLastRun}
  /\ config_file = OnDisk(DocA) /\ file_mtime = 0 /\ cm_config = DocA
  /\ confidence_threshold = ConfidenceIn(DocA)
  /\ max_images_per_folder = MaxImagesIn(DocA)
  /\ known_face_color = TupleOf(ColorNodeIn(DocA))
  /\ similarity_threshold = SimilarityIn(DocA)
  /\ config_last_modified = 0
  /\ mon = [pc |-> "unstarted"]
  /\ obs = [read |-> FALSE]
  /\ InitQueues /\ InitCache
  /\ face_queue = <<>> /\ frame = 0
  /\ running = FALSE /\ rec_running = FALSE
  /\ saved_faces = {} /\ saved_unknown_faces = {}
  /\ pc = [det |-> "unstarted", rec |-> "unstarted", cw |-> "idle",
           main |-> "check_database"]
  /\ rec_local = [face_id |-> 0, files |-> {}]
  /\ cw_local = [folder |-> "known", files |-> {}]
  /\ main_local = {} /\ periodic_calls = 0 /\ consumed = {}
  /\ \E database_exists \in BOOLEAN, camera_opens \in BOOLEAN :
       seen = [op |-> "startup", database_exists |-> database_exists,
               camera_opens |-> camera_opens, diagnostics |-> {}]

startupRest == <<dbVars, fsVars, queueVars, cacheVars, detVars, face_queue,
                 frame, rec_running, saved_faces, saved_unknown_faces,
                 rec_local, cw_local, main_local, periodic_calls, consumed>>

\* if not os.path.exists(JSON_DATABASE_PATH): print(...); return
MainCheckDatabase ==
  /\ pc.main = "check_database"
  /\ IF seen.database_exists
       THEN /\ pc' = [pc EXCEPT !.main = "start_detection"]
            /\ UNCHANGED seen
       ELSE /\ pc' = [pc EXCEPT !.main = "aborted"]
            /\ seen' = [seen EXCEPT !.diagnostics = @ \cup {"database"}]
  /\ UNCHANGED <<cfgVars, running, startupRest>>

\* Both stages are constructed; detection_thread.start()
MainStartDetection ==
  /\ pc.main = "start_detection"
  /\ pc' = [pc EXCEPT !.main = "start_recognition", !.det = "start"]
  /\ UNCHANGED <<callVars, cfgVars, running, startupRest>>

\* recognition_thread.start()
MainStartRecognition ==
  /\ pc.main = "start_recognition"
  /\ pc' = [pc EXCEPT !.main = "start_monitor", !.rec = "start"]
  /\ UNCHANGED <<callVars, cfgVars, running, startupRest>>

\* config_monitor_thread.start()
MainStartMonitor ==
  /\ pc.main = "start_monitor"
  /\ pc' = [pc EXCEPT !.main = "wait"]
  /\ mon' = [pc |-> "poll"]
  /\ UNCHANGED <<callVars, srcVars, cm_config, fieldVars, config_last_modified,
                 obs, running, startupRest>>

\* detect_faces up to its loop: running is set, the camera is opened; if
\* that fails the error is printed and the thread returns, else the
\* cleanup thread is started.
DetectOpenCamera ==
  \/ seen.camera_opens /\ DetectStart
  \/ /\ ~seen.camera_opens
     /\ pc.det = "start"
     /\ running' = TRUE
     /\ pc' = [pc EXCEPT !.det = "done"]
     /\ seen' = [seen EXCEPT !.diagnostics = @ \cup {"camera"}]
     /\ UNCHANGED <<cfgVars, startupRest>>

NextStartup ==
  \/ MainCheckDatabase
  \/ MainStartDetection
  \/ MainStartRecognition
  \/ MainStartMonitor
  \/ DetectOpenCamera
  \/ RecognizeStart
  \/ DetectFrame
  \/ RecognizeFace
  \/ RecognizerUnknownWrite
  \/ RecognizerUnknownEvict
SpecStartup == InitStartup /\ [][NextStartup]_vars

\* A thread of the pipeline has been started.
WorkersStarted ==
  \/ pc.det # "unstarted"
  \/ pc.rec # "unstarted"
  \/ pc.cw # "idle"
  \/ mon.pc # "unstarted"

\* C21: when the camera cannot be opened or the database path is missing,
\* no worker (detection, recognition, cleanup, config monitor) is ever
\* started.
C21_FatalStartupStartsNoWorker ==
  seen.op = "startup" =>
    ((~seen.camera_opens \/ ~seen.database_exists) => ~WorkersStarted)

\* C22: for every region whose confidence passes the confidence filter,
\* also one the size gate rejects, the detection loop has queried the
\* overlay cache, with the detector's own box.
C22_ConfidentRegionIsQueried ==
  (seen.op = "region" /\ ConfidentEnough(seen.conf, confidence_threshold)) =>
    lastQuery.asked /\ lastQuery.bbox = seen.box

(***************************************************************************)
(* The unknown folder under both of its evictions, taken one at a time,    *)
(* while the cap is reloaded.                                              *)
(***************************************************************************)
CapDocument(cap) == Document(60, cap, 40, ListNode(<<0, 255, 0>>))

InitCaps ==
  /\ data = <<>> /\ lastFind = NoFind
  /\ save_dir = {} /\ clock = 0 /\ justEvicted = "none"
  /\ unknown_dir \in {{}, LeftFromLastRun}
  /\ \E cap \in 1..MaxCap : InitConfig(CapDocument(cap))
  /\ InitQueues /\ InitCache /\ InitThreads

\* FaceRecognizer.cleanup_unknown_folder, start to end.
EvictUnknownByRecognizer ==
  /\ unknown_dir' = unknown_dir \ cleanup_unknown_folder(unknown_dir)
  /\ justEvicted' = "recognizer"
  /\ UNCHANGED <<callVars, dbVars, save_dir, clock, cfgVars, queueVars,
                 cacheVars, detVars, pipeVars>>

\* config.yaml is rewritten with another cap and the monitor reloads it:
\* FaceDetector.reload_config sets max_images_per_folder.
ReloadCap ==
  /\ file_mtime < MaxEdits
  /\ \E cap \in (1..MaxCap) \ {max_images_per_folder} :
       /\ config_file' = OnDisk(CapDocument(cap))
       /\ cm_config' = CapDocument(cap)
       /\ max_images_per_folder' = MaxImagesIn(CapDocument(cap))
  /\ file_mtime' = file_mtime + 1
  /\ config_last_modified' = file_mtime + 1
  /\ justEvicted' = "none"
  /\ UNCHANGED <<callVars, dbVars, save_dir, unknown_dir, clock,
                 confidence_threshold, known_face_color, similarity_threshold,
                 mon, obs, queueVars, cacheVars, detVars, pipeVars>>

NextCaps ==
  WriteCrop \/ EvictUnknown \/ EvictUnknownByRecognizer \/ ReloadCap
SpecCaps == InitCaps /\ [][NextCaps]_vars

\* C23: right after an eviction of the unknown folder, by the detector's
\* cleanup_unknown_faces or by the recognizer's cleanup_unknown_folder, the
\* folder holds at most the configured max_images_per_folder files, also
\* when a reload has changed the cap.
C23_UnknownEvictionsShareCap ==
  justEvicted \in {"unknown", "recognizer"} =>
    Cardinality(unknown_dir) <= max_images_per_folder

(***************************************************************************)
(* ConfigManager.get on configuration trees of every shape.                *)
(***************************************************************************)
\* What yaml.safe_load can hand over: the full document, an empty one, a
\* document that is a list or a string, and documents whose face_detection
\* section is missing, a number, a string, a list, null, or a mapping
\* without the key or with a null under it.
SectionShapes ==
  {NumNode(5), StrNode("on"), ListNode(<<1, 2>>), NullNode,
   MapNode([k \in {"max_images_per_folder"} |-> NumNode(1)]),
   MapNode([k \in {"confidence_threshold"} |-> NullNode])}
Trees ==
  {DocA, DocEmpty, ListNode(<<1, 2>>), StrNode("face_detection"),
   MapNode([k \in {"colors"} |-> MapNode([j \in {"known_face_box"} |->
                                            ListNode(<<0, 255, 0>>)])])}
    \cup {MapNode([k \in {"face_detection"} |-> section]) :
            section \in SectionShapes}

KeyPaths ==
  {<<"face_detection">>,
   <<"face_detection", "confidence_threshold">>,
   <<"face_detection", "confidence_threshold", "unit">>,
   <<"colors", "known_face_box">>,
   <<"camera", "resolution", "width">>}
Defaults == {NumNode(60), NullNode}

\* config_manager.reload_config() on a file that holds any tree.
ReloadTree ==
  /\ \E tree \in Trees \ {cm_config} :
       /\ config_file' = OnDisk(tree)
       /\ cm_config' = tree
  /\ seen' = [op |-> "none"]
  /\ UNCHANGED <<file_mtime, fieldVars, monVars, cfgOther>>

\* One call of config_manager.get.
GetCall ==
  /\ \E key_path \in KeyPaths, default \in Defaults :
       seen' = [op |-> "get", key_path |-> key_path, default |-> default,
                result |-> get(cm_config, key_path, default)]
  /\ UNCHANGED <<cfgVars, cfgOther>>

InitGet ==
  /\ data = <<>> /\ lastFind = NoFind
  /\ InitStaging
  /\ InitConfig(DocA)
  /\ InitQueues /\ InitCache /\ InitThreads
NextGet == ReloadTree \/ GetCall
SpecGet == InitGet /\ [][NextGet]_vars

\* The path leads through mappings only, each holding the next key.
RECURSIVE Present(_, _)
Present(tree, key_path) ==
  \/ key_path = <<>>
  \/ /\ tree.kind = "map"
     /\ Head(key_path) \in DOMAIN tree.items
     /\ Present(tree.items[Head(key_path)], Tail(key_path))

\* C24: for a path that is missing from the loaded tree, whatever the
\* shape of the tree, get returns the default and does not raise.
C24_MissingPathYieldsDefault ==
  (seen.op = "get" /\ ~Present(cm_config, seen.key_path)) =>
    seen.result = seen.default /\ seen.result # Raises

\* The default came back for a path that runs into a section that is a
\* number, a string, a list or null.
C24_Witness ==
  /\ seen.op = "get"
  /\ cm_config.kind = "map"
  /\ "face_detection" \in DOMAIN cm_config.items
  /\ cm_config.items["face_detection"].kind # "map"
  /\ seen.key_path = <<"face_detection", "confidence_threshold">>
  /\ seen.result = seen.default

(***************************************************************************)
(* The detection loop feeding the recognition thread, with no eviction of  *)
(* the primary folder in between.                                          *)
(***************************************************************************)
NextStaging == DetectFrame \/ NextRecognizer
SpecStaging == InitRecognizer /\ [][NextStaging]_vars

\* The files of a kind staged in the primary folder for a face, and the
\* items queued for it.
StagedOf(face_id, kind) ==
  {f \in save_dir : f.face_id = face_id /\ f.kind = kind}
QueuedFor(face_id) ==
  SelectSeq(face_queue, LAMBDA item : item.face_id = face_id)
CallsFor(face_id) == {call \in Calls : call.face_id = face_id}

\* C25: every accepted crop has exactly one original and one resized file
\* staged in the primary folder, written before its queue item was put, and
\* exactly one queue item, which is waiting or has been processed, whatever
\* the outcome of its recognition.
C25_AcceptedCropStagedOnceQueuedOnce ==
  seen.op = "process_face" =>
    /\ \A face_id \in 1..face_counter :
         /\ Cardinality(StagedOf(face_id, "orig")) = 1
         /\ Cardinality(StagedOf(face_id, "resized")) = 1
         /\ Len(QueuedFor(face_id)) + Cardinality(CallsFor(face_id)) = 1
    /\ \A i \in 1..Len(face_queue) :
         /\ face_queue[i].face_id \in 1..face_counter
         /\ \A f \in save_dir :
              f.face_id = face_queue[i].face_id => f.ctime <= clock

\* A crop accepted while the recognition of an earlier one had already
\* ended as UNKNOWN: both are staged, the new one waits in the queue.
C25_Witness ==
  /\ seen.op = "process_face"
  /\ face_counter = 2
  /\ Len(QueuedFor(2)) = 1
  /\ lastQuery.asked
  /\ \E call \in CallsFor(1) : UnknownResult(call)

(***************************************************************************)
(* Eviction runs on the primary folder, each recorded with the listing it  *)
(* found.                                                                  *)
(***************************************************************************)
\* cleanup_oldest_files(self.save_folder, "known"), start to end.
ObservedCleanupOldest ==
  /\ save_dir' = save_dir \ cleanup_oldest_files(save_dir, max_images_per_folder)
  /\ justEvicted' = "known"
  /\ seen' = [op |-> "evict", by |-> "cleanup_oldest_files",
              before |-> save_dir]
  /\ UNCHANGED <<dbVars, unknown_dir, clock, cfgVars, queueVars, cacheVars,
                 detVars, pipeVars>>

\* cleanup_old_files_in_folder(self.save_folder, "known", ...), start to end.
ObservedCleanupOldInFolder ==
  /\ save_dir' =
       save_dir \ cleanup_old_files_in_folder(save_dir, max_images_per_folder)
  /\ justEvicted' = "known"
  /\ seen' = [op |-> "evict", by |-> "cleanup_old_files_in_folder",
              before |-> save_dir]
  /\ UNCHANGED <<dbVars, unknown_dir, clock, cfgVars, queueVars, cacheVars,
                 detVars, pipeVars>>

NextOldest == WriteCrop \/ ObservedCleanupOldest \/ ObservedCleanupOldInFolder
SpecOldest == InitEvict /\ [][NextOldest]_vars

\* C26: an eviction run on a folder of more than cap files leaves exactly
\* the cap newest ones, each deleted file being no younger than any file
\* kept; on a folder of at most cap files it deletes nothing.
C26_EvictionKeepsNewest ==
  (seen.op = "evict" /\ justEvicted = "known") =>
    IF Cardinality(seen.before) > max_images_per_folder
      THEN /\ Cardinality(save_dir) = max_images_per_folder
           /\ save_dir \subseteq seen.before
           /\ \A deleted \in seen.before \ save_dir, kept \in save_dir :
                deleted.ctime <= kept.ctime
      ELSE save_dir = seen.before

(***************************************************************************)
(* The recognition thread under every threshold: the threshold is reloaded *)
(* between crops, and the embedder returns any descriptor.                 *)
(***************************************************************************)
ConfidenceStores ==
  {PipelineStore,
   <<[person_name |-> "alice", mean_embedding |-> <<4, 3>>],
     [person_name |-> "bob", mean_embedding |-> <<3, 4>>]>>}
AnyFaces == {<<>>} \cup {<<embedding>> : embedding \in Embeddings}

InitConfidence ==
  /\ \E store \in ConfidenceStores : InitRunning(store)
  /\ seen = NoCalls

\* config.yaml is rewritten with another similarity threshold and the
\* monitor reloads it: FaceRecognizer.reload_config sets the field.
ReloadThreshold ==
  /\ file_mtime < MaxEdits
  /\ \E threshold \in Thresholds \ {similarity_threshold} :
       LET doc == Document(60, 1, threshold, ListNode(<<0, 255, 0>>))
       IN  /\ config_file' = OnDisk(doc)
           /\ cm_config' = doc
           /\ similarity_threshold' = SimilarityIn(doc)
  /\ file_mtime' = file_mtime + 1
  /\ config_last_modified' = file_mtime + 1
  /\ UNCHANGED <<callVars, confidence_threshold, max_images_per_folder,
                 known_face_color, mon, obs, cfgOther>>

\* process_face on the next crop, recorded with the threshold in force.
ScoredProcessFace ==
  \E faces \in AnyFaces :
    /\ ProcessFace(FALSE, faces)
    /\ LET face == Head(face_queue)
           done == process_face(face, FALSE, faces)
       IN  seen' = [seen EXCEPT !.calls = Append(@,
             [face_id |-> face.face_id, faces |-> faces,
              results |-> done.results, queried |-> done.queried,
              unknown |-> done.unknown,
              threshold |-> similarity_threshold])]

NextConfidence ==
  \/ ReloadThreshold
  \/ ScoredProcessFace
  \/ RecognizerUnknownWrite
  \/ RecognizerUnknownEvict
SpecConfidence == InitConfidence /\ [][NextConfidence]_vars

\* C27: every result has a confidence from 0 to 100; a result for a crop
\* without a face or without a match has confidence 0, and a result with
\* the name of an enrolled person has the similarity to that person times
\* 100, which is at least the threshold in force and at most 100.
C27_ConfidenceWithinBounds ==
  seen.op = "process_face" =>
    \A call \in Calls :
      \A i \in 1..Len(call.results) :
        LET result == call.results[i]
        IN  /\ result.confidence >= 0 /\ result.confidence <= 100
            /\ IF call.queried /\ ~call.unknown
                 THEN /\ \E j \in 1..Len(data) :
                           /\ data[j].person_name = result.person_name
                           /\ result.confidence =
                                cosine_similarity(call.faces[1],
                                                  data[j].mean_embedding)
                      /\ result.confidence >= call.threshold
                 ELSE result.confidence = 0

\* A match under a reloaded threshold of 0.6 with a confidence below 100,
\* and one under a negative threshold.
C27_Witness ==
  /\ seen.op = "process_face"
  /\ \E call \in Calls :
       /\ call.threshold = 60 /\ call.queried /\ ~call.unknown
       /\ call.results[1].confidence = 96
  /\ \E call \in Calls :
       /\ call.threshold = -50 /\ call.queried /\ ~call.unknown

\* C28: the crops accepted in a run have distinct face ids: no two queue
\* items and no two processed crops share one, a face id has at most one
\* original and one resized file staged, and the overlay cache holds, under
\* a face id, the result of the crop that got that id.
C28_FaceIdsAreUnique ==
  seen.op = "process_face" =>
    /\ \A i, j \in 1..Len(face_queue) :
         i # j => face_queue[i].face_id # face_queue[j].face_id
    /\ \A i, j \in 1..Len(seen.calls) :
         i # j => seen.calls[i].face_id # seen.calls[j].face_id
    /\ \A i \in 1..Len(face_queue), j \in 1..Len(seen.calls) :
         face_queue[i].face_id # seen.calls[j].face_id
    /\ \A face_id \in 1..face_counter :
         /\ Cardinality(StagedOf(face_id, "orig")) <= 1
         /\ Cardinality(StagedOf(face_id, "resized")) <= 1
    /\ \A i \in 1..Len(current_recognitions) :
         \E call \in CallsFor(current_recognitions[i].face_id) :
           /\ Cardinality(CallsFor(call.face_id)) = 1
           /\ call.results # <<>>
           /\ call.results[1].person_name = current_recognitions[i].person_name

\* The results of two crops side by side in the overlay cache, the second
\* crop accepted by the detection loop in this run.
C28_Witness ==
  /\ seen.op = "process_face"
  /\ lastQuery.asked
  /\ Len(current_recognitions) = 2
  /\ current_recognitions[1].face_id # current_recognitions[2].face_id

(***************************************************************************)
(* The overlay cache step by step: the store and the purge of              *)
(* update_recognition_results, the detector call, the scan of              *)
(* get_recognition_for_area, and, in the recognition thread, the embedder  *)
(* call between taking a crop and putting its result.                      *)
(***************************************************************************)
\* The thread that runs update_recognition_results: detect_faces calls it.
RecognitionThreadPublishes == "rec"
Publisher == "det"

cacheRest == <<callVars, dbVars, cfgVars, running, rec_running,
               saved_unknown_faces, cw_local, main_local, periodic_calls,
               consumed>>

\* self.current_recognitions[face_id] = {...} and the cleanup request.
CacheStore ==
  /\ pc[Publisher] = "loop"
  /\ recognition_results # <<>>
  /\ LET result == Head(recognition_results)
     IN  /\ current_recognitions' = StoreResult(current_recognitions, result)
         /\ cleanup_queue' = Append(cleanup_queue,
              [face_id |-> result.face_id, person_name |-> result.person_name])
  /\ recognition_results' = Tail(recognition_results)
  /\ pc' = [pc EXCEPT ![Publisher] = "publishing"]
  /\ UNCHANGED <<fsVars, now, lastQuery, detVars, face_queue, frame,
                 saved_faces, rec_local, cacheRest>>

\* The purge of the results older than 3 seconds, which replaces the dict.
CachePurge ==
  /\ pc[Publisher] = "publishing"
  /\ current_recognitions' = PurgeOld(current_recognitions, now)
  /\ pc' = [pc EXCEPT ![Publisher] = "loop"]
  /\ UNCHANGED <<fsVars, queueVars, now, lastQuery, detVars, face_queue,
                 frame, saved_faces, rec_local, cacheRest>>

\* results = self.model(frame, verbose=False) is entered.
CacheDetectorCall ==
  /\ pc.det = "loop"
  /\ running
  /\ Publisher = "det" => recognition_results = <<>>
  /\ pc' = [pc EXCEPT !.det = "detecting"]
  /\ UNCHANGED <<fsVars, queueVars, cacheVars, detVars, face_queue, frame,
                 saved_faces, rec_local, cacheRest>>

\* The detector returns; a region that passes the gates is staged and
\* queued, and its overlay query is due.
CacheDetectorReturns ==
  /\ pc.det = "detecting"
  /\ frame' = 1 - frame
  /\ \E accepted \in BOOLEAN :
       IF accepted
         THEN /\ face_counter < MaxFaces
              /\ face_counter' = NextFaceId(face_counter)
              /\ save_dir' = save_dir \cup
                   save_face(NextFaceId(face_counter), clock)
              /\ clock' = clock + 2
              /\ saved_faces' = saved_faces \cup {NextFaceId(face_counter)}
              /\ face_queue' = Append(face_queue,
                   [face_id |-> NextFaceId(face_counter),
                    bbox |-> PipelineBBox])
              /\ pc' = [pc EXCEPT !.det = "querying"]
         ELSE /\ pc' = [pc EXCEPT !.det = "loop"]
              /\ UNCHANGED <<face_counter, save_dir, clock, saved_faces,
                             face_queue>>
  /\ UNCHANGED <<unknown_dir, justEvicted, queueVars, cacheVars, rec_local,
                 cacheRest>>

\* get_recognition_for_area scans the cache.
CacheQuery ==
  /\ pc.det = "querying"
  /\ lastQuery' = [asked |-> TRUE, bbox |-> PipelineBBox, at |-> now,
                   result |-> get_recognition_for_area(current_recognitions,
                                                       PipelineBBox)]
  /\ pc' = [pc EXCEPT !.det = "loop"]
  /\ UNCHANGED <<fsVars, queueVars, current_recognitions, now, detVars,
                 face_queue, frame, saved_faces, rec_local, cacheRest>>

\* recognize_faces takes a crop; process_face enters self.app.get.
CacheEmbedderCall ==
  /\ pc.rec = "loop"
  /\ rec_running
  /\ face_queue # <<>>
  /\ face_queue' = Tail(face_queue)
  /\ rec_local' = [face_id |-> Head(face_queue).face_id, files |-> {}]
  /\ pc' = [pc EXCEPT !.rec = "embedding"]
  /\ UNCHANGED <<fsVars, queueVars, cacheVars, detVars, frame, saved_faces,
                 cacheRest>>

\* The embedder returns, and process_face puts its result.
CacheEmbedderReturns ==
  /\ pc.rec = "embedding"
  /\ \E faces \in EmbedderReturns :
       LET face == [face_id |-> rec_local.face_id, bbox |-> PipelineBBox]
           done == process_face(face, FALSE, faces)
       IN  /\ recognition_results' = recognition_results \o done.results
           /\ pc' = [pc EXCEPT !.rec = IF done.unknown THEN "unknown_write"
                                                       ELSE "loop"]
  /\ UNCHANGED <<fsVars, cleanup_queue, cacheVars, detVars, face_queue, frame,
                 saved_faces, rec_local, cacheRest>>

InitCacheSteps == InitRunning(PipelineStore) /\ seen = [op |-> "cache"]
NextCacheSteps ==
  \/ CacheStore \/ CachePurge
  \/ CacheDetectorCall \/ CacheDetectorReturns \/ CacheQuery
  \/ CacheEmbedderCall \/ CacheEmbedderReturns
  \/ RecognizerUnknownWrite \/ RecognizerUnknownEvict
SpecCacheSteps == InitCacheSteps /\ [][NextCacheSteps]_vars

\* The threads inside an operation on current_recognitions, and the
\* threads inside a call of the detector or of the embedder.
CacheUsers ==
  {thread \in DOMAIN pc : pc[thread] \in {"publishing", "querying"}}
ModelCallers ==
  {thread \in DOMAIN pc : pc[thread] \in {"detecting", "embedding"}}

\* C29: at no time are two threads inside an operation on the overlay
\* cache, and a thread inside one is not inside a detector or embedder
\* call.
C29_CacheUsedByOneThread ==
  seen.op = "cache" =>
    /\ Cardinality(CacheUsers) <= 1
    /\ CacheUsers \cap ModelCallers = {}

\* The detection thread scans the cache, holding the result of an earlier
\* crop, while the recognition thread is inside the embedder.
C29_Witness ==
  /\ seen.op = "cache"
  /\ pc.det = "querying"
  /\ pc.rec = "embedding"
  /\ current_recognitions # <<>>

(***************************************************************************)
(* The staged files of a crop after its cleanup request: what cleanup_known *)
(* faces and cleanup_unknown_faces leave of the two files of save_face and  *)
(* of the entry of saved_faces.                                             *)
(***************************************************************************)
\* The files in the primary folder that save_face wrote for a face.
PrimaryFilesOf(face_id) == {f \in save_dir : f.face_id = face_id}

\* The crops whose cleanup request cleanup_worker has taken and handled.
Processed == {c.face_id : c \in consumed}

\* C30: once the cleanup request of a crop has been processed, whatever its
\* result was, the primary folder holds neither of the two files save_face
\* wrote for it and saved_faces has no entry for it, so that saved_faces
\* tracks only crops whose request is still to be processed.
C30_ProcessedCropLeavesNoPrimaryFile ==
  seen.op = "process_face" =>
    \A face_id \in Processed :
      /\ PrimaryFilesOf(face_id) = {}
      /\ face_id \notin saved_faces

(***************************************************************************)
(* A pipeline thread that ends on its own: main() from its start to the    *)
(* end of its finally block, with the wait loop that watches both threads, *)
(* the detection thread that ends on a camera failure or on the 'q' key,   *)
(* the recognition thread and the cleanup worker.                          *)
(***************************************************************************)
InitPeerEnds ==
  /\ InitStartup
  /\ seen.database_exists

\* while detection_thread.is_alive() and recognition_thread.is_alive() is
\* left: a thread has returned.
PeerEnded == pc.det = "done" \/ pc.rec = "done"

\* The finally block entered from the wait loop: face_detector.stop().
MainStopDetector == PeerEnded /\ StopDetector

\* face_detector.stop() when save_arrays_to_file raises (the open of
\* face_arrays.pkl fails): running is cleared, the exception leaves the
\* finally block, and face_recognizer.stop() is not reached.
MainStopDetectorRaises ==
  /\ pc.main = "wait"
  /\ PeerEnded
  /\ running' = FALSE
  /\ pc' = [pc EXCEPT !.main = "raised"]
  /\ UNCHANGED <<callVars, cfgVars, startupRest>>

PeerDetectionThread == DetectOpenCamera \/ DetectFrame
PeerRecognitionThread ==
  \/ RecognizeStart \/ RecognizeFace \/ RecognizerUnknownWrite
  \/ RecognizerUnknownEvict \/ RecognizeExit
PeerCleanupThread ==
  \/ CleanupWorkerRequest \/ CleanupWorkerEvict
  \/ CleanupWorkerLeave \/ CleanupWorkerEnd
PeerMainThread ==
  \/ MainCheckDatabase \/ MainStartDetection \/ MainStartRecognition
  \/ MainStartMonitor
  \/ MainStopDetector \/ MainStopDetectorRaises
  \/ SweepKnownList \/ SweepKnownDelete \/ SweepUnknownList
  \/ SweepUnknownDelete \/ StopRecognizer

NextPeerEnds ==
  \/ MainCheckDatabase \/ MainStartDetection \/ MainStartRecognition
  \/ MainStartMonitor
  \/ DetectOpenCamera \/ DetectFrame \/ DetectQuit
  \/ RecognizeStart \/ RecognizeFace \/ RecognizerUnknownWrite
  \/ RecognizerUnknownEvict \/ RecognizeExit
  \/ CleanupWorkerRequest \/ CleanupWorkerEvict
  \/ CleanupWorkerLeave \/ CleanupWorkerEnd
  \/ MainStopDetector \/ MainStopDetectorRaises
  \/ SweepKnownList \/ SweepKnownDelete \/ SweepUnknownList
  \/ SweepUnknownDelete \/ StopRecognizer

SpecPeerEnds == InitPeerEnds /\ [][NextPeerEnds]_vars

\* Every started thread keeps taking its steps, main included.  Nothing
\* obliges a face to show up or the 'q' key to be pressed.
FairPeerEnds ==
  /\ SpecPeerEnds
  /\ WF_vars(PeerDetectionThread)
  /\ WF_vars(PeerRecognitionThread)
  /\ WF_vars(PeerCleanupThread)
  /\ WF_vars(PeerMainThread)

\* A pipeline thread has ended while main was still in its wait loop.
EndedOnItsOwn == seen.op = "startup" /\ pc.main = "wait" /\ PeerEnded

\* main has printed "System shutdown complete" and no worker is running.
ShutdownComplete ==
  /\ pc.main = "done"
  /\ pc.det = "done"
  /\ pc.rec = "done"
  /\ pc.cw \in {"idle", "done"}

\* C31: once a pipeline thread has ended on its own, main calls stop() on
\* both components, the other worker and the cleanup worker come to an
\* end, and main reaches the end of its shutdown.
C31_PeerEndLeadsToShutdown == EndedOnItsOwn ~> ShutdownComplete

====
